---- MODULE Spec2Model ----
(***************************************************************************)
(* A model of the curriculum builder's retrieval-and-grade-matching layer, *)
(* of its week-content extractor, of its record store (SupabaseManager and *)
(* SessionManager), of the scheme-of-work, lesson-plan, lesson-notes and   *)
(* exam endpoints on top of them, of the lazily loaded embedding model and *)
(* tokenizer and of the content-generation workflow of the Streamlit app.  *)
(*                                                                         *)
(* Python strings are sequences of one-character strings, so that          *)
(* searching, splitting, trimming, lower-casing and parsing of numbers are *)
(* computed character by character, as the code computes them.             *)
(***************************************************************************)
EXTENDS Integers, Sequences, FiniteSets, TLC

VARIABLES
    user_grade,      \* _grade_matches: the query's grade text
    stored_grade,    \* _grade_matches: the candidate's grade text
    grade_ret,       \* what the last _grade_matches call returned
    vectors,         \* the vectors (chunks) stored in the Pinecone index
    tool,            \* the retrieval tool of a request: "none", "built" or "ran"
    index,           \* PineconeRetrievalTool.index: "None" or "Index"
    stored_context,  \* PineconeRetrievalTool.stored_context
    run_query,       \* the input of the last _run call
    calls,           \* the collaborator calls the last _run call made, in order
    run_ret,         \* what the last _run call returned (or raised)
    scheme_content,  \* validators: the content argument
    week,            \* validators: the week argument
    week_ret,        \* what the last validators call returned (or raised)
    subject_in,      \* normalize_subject: the subject text of the first call
    subject_rets,    \* what the successive normalize_subject calls returned
    run_num_results, \* _validate_and_retrieve: the num_results argument of the call
    tables,          \* the Supabase tables: per table, the rows by id
    next_id,         \* the id the database gives the next inserted row
    week_column_exists, \* SupabaseManager._week_column_exists: "unset" or "false"
    session,         \* SessionManager.current_*_id
    store_op,        \* the last store operation: its name, arguments, database
                     \* requests and what it returned
    request,         \* the scheme-of-work request being handled, if any
    events,          \* what the handler of the last request did, in order
    http_ret,        \* the response to the last scheme-of-work request
    module_globals,  \* the globals `model` and `tokenizer` of the two modules
    frames,          \* per caller, the loader call it is in and where
    loader_log,      \* the instances loaded and the globals assigned, in order
    loader_rets,     \* what the loader calls returned and which instances were used
    session_state,   \* st.session_state of a browser session: its `content` dict
    clicked          \* the button of the last script run, and the content before it

vars == << user_grade, stored_grade, grade_ret, vectors, tool, index, stored_context,
           run_query, calls, run_ret, scheme_content, week, week_ret,
           subject_in, subject_rets, run_num_results,
           tables, next_id, week_column_exists, session, store_op,
           request, events, http_ret,
           module_globals, frames, loader_log, loader_rets,
           session_state, clicked >>

gradeVars == << user_grade, stored_grade, grade_ret >>
retrievalVars == << vectors, tool, index, stored_context, run_query, calls, run_ret >>
weekVars == << scheme_content, week, week_ret >>
subjectVars == << subject_in, subject_rets >>

\* the state outside the retrieval tool, the grade matcher and the validators
storeVars == << tables, next_id, week_column_exists, session, store_op >>
endpointVars == << request, events, http_ret >>
loaderVars == << module_globals, frames, loader_log, loader_rets >>
workflowVars == << session_state, clicked >>
outsideLoaderVars == << gradeVars, retrievalVars, weekVars, subjectVars, run_num_results,
                        storeVars, endpointVars, workflowVars >>
outsideWorkflowVars == << gradeVars, retrievalVars, weekVars, subjectVars, run_num_results,
                          storeVars, endpointVars, loaderVars >>
appVars == << subjectVars, run_num_results, storeVars, endpointVars, loaderVars,
              workflowVars >>

-----------------------------------------------------------------------------
(* Python values *)

\* Optional[int]: None is the empty set, the integer n is {n}.
None == {}

Some(n) == {n}

\* the empty dict, {}
EmptyDict == [k \in {} |-> None]

Val(o) == CHOOSE n \in o : TRUE

\* Python truthiness of an Optional[int]: None and 0 are falsy.
Truthy(o) == o # None /\ o # Some(0)

\* The outcome of a call: a returned value or a raised exception.
NoCall == [kind |-> "none"]

Return(v) == [kind |-> "return", value |-> v]

Raise(e) == [kind |-> "raise", exc |-> e]

-----------------------------------------------------------------------------
(* Python str operations, on sequences of characters *)

Digits == <<"0", "1", "2", "3", "4", "5", "6", "7", "8", "9">>

IsDigit(c) == \E i \in 1..10 : Digits[i] = c

DigitValue(c) == (CHOOSE i \in 1..10 : Digits[i] = c) - 1

IsSpace(c) == c \in {" ", "\n", "\t"}

Upper == <<"A", "B", "C", "D", "E", "F", "G", "H", "I", "J", "K", "L", "M",
           "N", "O", "P", "Q", "R", "S", "T", "U", "V", "W", "X", "Y", "Z">>

LowerLetters == <<"a", "b", "c", "d", "e", "f", "g", "h", "i", "j", "k", "l", "m",
                  "n", "o", "p", "q", "r", "s", "t", "u", "v", "w", "x", "y", "z">>

IsUpper(c) == \E i \in 1..26 : Upper[i] = c

IsLower(c) == \E i \in 1..26 : LowerLetters[i] = c

LowerChar(c) == IF IsUpper(c) THEN LowerLetters[CHOOSE i \in 1..26 : Upper[i] = c] ELSE c

\* str.lower()
Lower(s) == [i \in 1..Len(s) |-> LowerChar(s[i])]

\* s[i:j] with 0 <= i and j <= len(s) (0-based, j exclusive)
Slice(s, i, j) == IF j <= i THEN <<>> ELSE SubSeq(s, i + 1, j)

\* str.strip()
Strip(s) ==
    LET keep == {i \in 1..Len(s) : ~IsSpace(s[i])}
    IN  IF keep = {} THEN <<>>
        ELSE SubSeq(s, CHOOSE i \in keep : \A j \in keep : i <= j,
                       CHOOSE i \in keep : \A j \in keep : j <= i)

\* sub occurs in s at the 0-based offset i
OccursAt(s, sub, i) ==
    /\ i >= 0
    /\ i + Len(sub) <= Len(s)
    /\ \A k \in 1..Len(sub) : s[i + k] = sub[k]

RECURSIVE Find(_, _, _)
\* s.find(sub, start) for start >= 0: the lowest offset >= start, or -1
Find(s, sub, start) ==
    IF start + Len(sub) > Len(s) THEN -1
    ELSE IF OccursAt(s, sub, start) THEN start
    ELSE Find(s, sub, start + 1)

\* sub in s
Contains(s, sub) == Find(s, sub, 0) # -1

RECURSIVE Split(_, _)
\* s.split(sep), sep not empty
Split(s, sep) ==
    LET i == Find(s, sep, 0)
    IN  IF i = -1 THEN <<s>>
        ELSE <<Slice(s, 0, i)>> \o Split(Slice(s, i + Len(sep), Len(s)), sep)

RECURSIVE Join(_, _)
\* sep.join(parts)
Join(parts, sep) ==
    IF parts = <<>> THEN <<>>
    ELSE IF Len(parts) = 1 THEN parts[1]
    ELSE parts[1] \o sep \o Join(Tail(parts), sep)

RECURSIVE Concat(_)
Concat(parts) == IF parts = <<>> THEN <<>> ELSE parts[1] \o Concat(Tail(parts))

RECURSIVE DigitRunEnd(_, _)
\* the offset just after the digit run of s that starts at offset i
DigitRunEnd(s, i) ==
    IF i < Len(s) /\ IsDigit(s[i + 1]) THEN DigitRunEnd(s, i + 1) ELSE i

RECURSIVE FindAllDigitsFrom(_, _)
FindAllDigitsFrom(s, i) ==
    IF i >= Len(s) THEN <<>>
    ELSE IF IsDigit(s[i + 1])
         THEN <<Slice(s, i, DigitRunEnd(s, i))>> \o FindAllDigitsFrom(s, DigitRunEnd(s, i))
         ELSE FindAllDigitsFrom(s, i + 1)

\* re.findall(r'\d+', s): the maximal digit runs, left to right
FindAllDigits(s) == FindAllDigitsFrom(s, 0)

RECURSIVE ToInt(_)
\* int(s) for a non-empty digit string
ToInt(s) ==
    IF Len(s) = 1 THEN DigitValue(s[1])
    ELSE 10 * ToInt(SubSeq(s, 1, Len(s) - 1)) + DigitValue(s[Len(s)])

\* s.isdigit() (ASCII digits)
IsDigitStr(s) == s # <<>> /\ \A i \in 1..Len(s) : IsDigit(s[i])

-----------------------------------------------------------------------------
(* The grade matcher: PineconeRetrievalTool._grade_matches *)

word_to_num ==
    << << <<"o", "n", "e">>, 1 >>,
       << <<"t", "w", "o">>, 2 >>,
       << <<"t", "h", "r", "e", "e">>, 3 >>,
       << <<"f", "o", "u", "r">>, 4 >>,
       << <<"f", "i", "v", "e">>, 5 >>,
       << <<"s", "i", "x">>, 6 >>,
       << <<"s", "e", "v", "e", "n">>, 7 >>,
       << <<"e", "i", "g", "h", "t">>, 8 >>,
       << <<"n", "i", "n", "e">>, 9 >> >>

\* The first entry of word_to_num, in the table's order, whose word is in the text.
WordNumber(grade_text) ==
    LET hits == {i \in 1..Len(word_to_num) : Contains(grade_text, word_to_num[i][1])}
    IN  IF hits = {} THEN None
        ELSE Some(word_to_num[CHOOSE i \in hits : \A j \in hits : i <= j][2])

\* _extract_grade_number taking the last number of the text
ExtractGradeNumberLast(text) ==
    LET grade_text == Strip(Lower(text))
        numbers == FindAllDigits(grade_text)
    IN  IF numbers # <<>> THEN Some(ToInt(numbers[Len(numbers)])) ELSE WordNumber(grade_text)

ExtractGradeNumber(text) ==
    LET grade_text == Strip(Lower(text))
        numbers == FindAllDigits(grade_text)
    IN  IF numbers # <<>> THEN Some(ToInt(numbers[1])) ELSE WordNumber(grade_text)

ExtractGradeRange(grade_text) ==
    LET numbers == FindAllDigits(grade_text)
    IN  IF Len(numbers) >= 2 THEN <<Some(ToInt(numbers[1])), Some(ToInt(numbers[2]))>>
        ELSE <<None, None>>

\* _grade_matches with "no match found" answering True
GradeMatchesDefaultTrue(user, stored) ==
    IF user = stored THEN TRUE
    ELSE LET user_num == ExtractGradeNumber(user)
         IN  IF user_num = None THEN FALSE
             ELSE IF Contains(stored, <<"-">>)
                  THEN LET range == ExtractGradeRange(stored)
                       IN  IF Truthy(range[1]) /\ Truthy(range[2])
                           THEN Val(range[1]) <= Val(user_num) /\ Val(user_num) <= Val(range[2])
                           ELSE TRUE
                  ELSE LET stored_num == ExtractGradeNumber(stored)
                       IN  IF Truthy(stored_num) THEN user_num = stored_num ELSE TRUE

GradeMatches(user, stored) ==
    IF user = stored THEN TRUE
    ELSE LET user_num == ExtractGradeNumber(user)
         IN  IF user_num = None THEN FALSE
             ELSE IF Contains(stored, <<"-">>)
                  THEN LET range == ExtractGradeRange(stored)
                       IN  IF Truthy(range[1]) /\ Truthy(range[2])
                           THEN Val(range[1]) <= Val(user_num) /\ Val(user_num) <= Val(range[2])
                           ELSE FALSE
                  ELSE LET stored_num == ExtractGradeNumber(stored)
                       IN  IF Truthy(stored_num) THEN user_num = stored_num ELSE FALSE

-----------------------------------------------------------------------------
(* The subject normaliser: SubjectMapper.normalize_subject *)

s_math == <<"m", "a", "t", "h">>

s_mathematics == <<"m", "a", "t", "h", "e", "m", "a", "t", "i", "c", "s">>

s_english == <<"e", "n", "g", "l", "i", "s", "h">>

s_primary_four == <<"p", "r", "i", "m", "a", "r", "y", " ", "f", "o", "u", "r">>

s_primary_4 == <<"p", "r", "i", "m", "a", "r", "y", " ", "4">>

s_primary_4_6 == <<"p", "r", "i", "m", "a", "r", "y", " ", "4", "-", "6">>

s_primary_7 == <<"p", "r", "i", "m", "a", "r", "y", " ", "7">>

s_fractions == <<"f", "r", "a", "c", "t", "i", "o", "n", "s">>

s_algebra == <<"a", "l", "g", "e", "b", "r", "a">>

s_Adding_fractions ==
    <<"A", "d", "d", "i", "n", "g", " ", "f", "r", "a", "c", "t", "i", "o", "n", "s">>

s_decimals == <<"d", "e", "c", "i", "m", "a", "l", "s">>

s_nouns == <<"n", "o", "u", "n", "s">>

s_None == <<"N", "o", "n", "e">>

\* config['subject_aliases']: surface form -> canonical subject
aliases == << <<s_math, s_mathematics>> >>

\* config['standard_subjects']
standard_subjects == {s_mathematics, s_english}

\* s.replace(old, new) for one-character old and new
ReplaceChar(s, old, new) == [i \in 1..Len(s) |-> IF s[i] = old THEN new ELSE s[i]]

UpperChar(c) == IF IsLower(c) THEN Upper[CHOOSE i \in 1..26 : LowerLetters[i] = c] ELSE c

\* normalize_subject returning the canonical name of an alias capitalised
NormalizeSubjectCapitalised(text) ==
    LET subject == ReplaceChar(Strip(Lower(text)), "_", " ")
        hits == {i \in 1..Len(aliases) : aliases[i][1] = subject}
        canonical == aliases[CHOOSE i \in hits : TRUE][2]
    IN  IF hits # {} THEN <<UpperChar(canonical[1])>> \o Tail(canonical)
        ELSE subject

NormalizeSubject(text) ==
    LET subject == ReplaceChar(Strip(Lower(text)), "_", " ")
        hits == {i \in 1..Len(aliases) : aliases[i][1] = subject}
    IN  IF hits # {} THEN aliases[CHOOSE i \in hits : TRUE][2]
        ELSE IF subject \in standard_subjects THEN subject
        ELSE subject

-----------------------------------------------------------------------------
(* The retrieval engine: PineconeRetrievalTool._run, _validate_and_retrieve *)

\* JSON values of a query's fields
JStr(s) == [t |-> "str", s |-> s]

JNull == [t |-> "null"]

IsStr(v) == v.t = "str"

\* str(v), as an f-string formats it
Str(v) == IF IsStr(v) THEN v.s ELSE s_None

\* The chunks an ingestion may have stored, by id.
Catalogue ==
    [ c1 |-> [subject |-> s_mathematics, grade_level |-> s_primary_4, country |-> "nigeria",
              content |-> s_Adding_fractions, topics |-> <<s_fractions>>],
      c2 |-> [subject |-> s_mathematics, grade_level |-> s_primary_4_6, country |-> "nigeria",
              content |-> s_algebra, topics |-> <<s_decimals, s_fractions>>],
      c3 |-> [subject |-> s_mathematics, grade_level |-> s_primary_7, country |-> "nigeria",
              content |-> s_algebra, topics |-> <<>>],
      c4 |-> [subject |-> s_english, grade_level |-> s_primary_4, country |-> "kenya",
              content |-> s_nouns, topics |-> <<s_nouns>>],
      c5 |-> [subject |-> s_mathematics, grade_level |-> s_primary_4, country |-> "nigeria",
              content |-> s_Adding_fractions, topics |-> <<s_fractions, s_Adding_fractions>>] ]

ChunkIds == DOMAIN Catalogue

MaxVectors == 2

\* the similarity scores of the index, a lower and a higher one
ScoreLevels == {1, 2}

\* PineconeRetrievalTool.country
country == "nigeria"

\* index.query(top_k=30)
TopK == 30

\* _validate_and_retrieve(query, num_results=10)
NumResults == 10

required_keys == {"subject", "grade_level", "topic"}

Perms(S) == {p \in [1..Cardinality(S) -> S] : \A x \in S : \E i \in DOMAIN p : p[i] = x}

NonIncreasing(n) ==
    {f \in [1..n -> ScoreLevels] : \A i \in 1..n : \A j \in 1..n : i <= j => f[i] >= f[j]}

\* How the collaborators behave during one call: describe_index_stats, the
\* embedding computation and index.query each answer or raise; the index ranks
\* its vectors in `order` with the similarity scores `scores`.
Envs ==
    {[stats |-> "raise", embed |-> "ok", query |-> "ok", order |-> <<>>, scores |-> <<>>],
     [stats |-> "ok", embed |-> "raise", query |-> "ok", order |-> <<>>, scores |-> <<>>],
     [stats |-> "ok", embed |-> "ok", query |-> "raise", order |-> <<>>, scores |-> <<>>]}
    \cup
    {[stats |-> "ok", embed |-> "ok", query |-> "ok", order |-> o, scores |-> f] :
        o \in Perms(vectors), f \in NonIncreasing(Cardinality(vectors))}

Min(a, b) == IF a < b THEN a ELSE b

\* seq[:n]
Take(seq, n) == SubSeq(seq, 1, Min(Len(seq), n))

\* index.query(vector, top_k, include_metadata, filter): the stored vectors that
\* pass the country and subject filter, best score first, at most top_k of them
IndexQuery(subject, top_k, env) ==
    LET all == [i \in 1..Len(env.order) |->
                   [id |-> env.order[i], score |-> env.scores[i],
                    metadata |-> Catalogue[env.order[i]]]]
        hits == SelectSeq(all, LAMBDA m : m.metadata.country = country
                                          /\ m.metadata.subject = subject)
    IN  Take(hits, top_k)

RECURSIVE DropEmpty(_)
DropEmpty(parts) ==
    IF parts = <<>> THEN <<>>
    ELSE IF parts[1] = <<>> THEN DropEmpty(Tail(parts))
    ELSE <<parts[1]>> \o DropEmpty(Tail(parts))

\* s.split(): the words between runs of whitespace
SplitWhitespace(s) ==
    DropEmpty(Split([i \in 1..Len(s) |-> IF IsSpace(s[i]) THEN " " ELSE s[i]], <<" ">>))

RECURSIVE SumSeq(_)
SumSeq(ns) == IF ns = <<>> THEN 0 ELSE ns[1] + SumSeq(Tail(ns))

\* the inner loop with a topic tag weighing as much as the content
KeywordRelevanceUnweighted(keyword, content, topics) ==
    (IF Contains(content, keyword) THEN 1 ELSE 0)
    + SumSeq([i \in 1..Len(topics) |-> IF Contains(Lower(topics[i]), keyword) THEN 1 ELSE 0])

\* the inner loop of lines 288-293 for one keyword
KeywordRelevance(keyword, content, topics) ==
    (IF Contains(content, keyword) THEN 1 ELSE 0)
    + SumSeq([i \in 1..Len(topics) |-> IF Contains(Lower(topics[i]), keyword) THEN 2 ELSE 0])

TopicRelevance(topic_keywords, metadata) ==
    SumSeq([k \in 1..Len(topic_keywords) |->
               KeywordRelevance(topic_keywords[k], Lower(metadata.content), metadata.topics)])

\* the sort key (topic_relevance, score), compared as tuples
KeyGE(a, b) ==
    \/ a.topic_relevance > b.topic_relevance
    \/ a.topic_relevance = b.topic_relevance /\ a.score >= b.score

\* the candidates left in the order in which the index returned them
SortMatchesUnsorted(ms) == ms

RECURSIVE SortMatches(_)
\* list.sort(key=..., reverse=True): descending and stable
SortMatches(ms) ==
    IF ms = <<>> THEN <<>>
    ELSE LET rest == SortMatches(SubSeq(ms, 1, Len(ms) - 1))
             x == ms[Len(ms)]
             n == Cardinality({i \in 1..Len(rest) : KeyGE(rest[i], x)})
         IN  SubSeq(rest, 1, n) \o <<x>> \o SubSeq(rest, n + 1, Len(rest))

ErrorResult(msg) == [status |-> "error", message |-> msg]

\* What one call did: its return value or exception, the collaborator calls it
\* made and the stored_context it leaves.
Outcome(ret, made, ctx) == [ret |-> ret, calls |-> made, stored_context |-> ctx]

\* lines 282-297: the candidate with its topic_relevance
WithRelevance(m, topic_keywords) ==
    [id |-> m.id, score |-> m.score,
     topic_relevance |-> TopicRelevance(topic_keywords, m.metadata),
     metadata |-> m.metadata]

ScoreAll(ms, topic_keywords) == [i \in 1..Len(ms) |-> WithRelevance(ms[i], topic_keywords)]

\* a grade filter that lets every candidate through
GradeFilterKeepsAll(matches, grade) == matches

\* lines 269-274: the candidates whose grade matches the query's
GradeFilter(matches, grade) ==
    SelectSeq(matches, LAMBDA m : GradeMatches(grade, m.metadata.grade_level))

\* a topic filter that keeps the candidates with no topic relevance
TopicFilterKeepsAll(scored) == scored

\* lines 278-297: the candidates with a positive topic_relevance
TopicFilter(scored) == SelectSeq(scored, LAMBDA m : m.topic_relevance > 0)

Contents(ms) == [i \in 1..Len(ms) |-> ms[i].metadata.content]

\* the result with the contents joined by a single newline
BuildResultSingleNewline(final_matches, made) ==
    IF final_matches = <<>>
    THEN Outcome(Return([status |-> "invalid", message |-> "No relevant data found.",
                         alternatives |-> <<>>]), made, stored_context)
    ELSE Outcome(Return([status |-> "valid",
                         context |-> Join(Contents(final_matches), <<"\n">>),
                         matches |-> final_matches, alternatives |-> <<>>]),
                 made, Join(Contents(final_matches), <<"\n">>))

\* lines 306-334: the result built from the final matches
BuildResult(final_matches, made) ==
    IF final_matches = <<>>
    THEN Outcome(Return([status |-> "invalid", message |-> "No relevant data found.",
                         alternatives |-> <<>>]), made, stored_context)
    ELSE Outcome(Return([status |-> "valid",
                         context |-> Join(Contents(final_matches), <<"\n", "\n">>),
                         matches |-> final_matches, alternatives |-> <<>>]),
                 made, Join(Contents(final_matches), <<"\n", "\n">>))

\* lines 266-334, inside the try block, once index.query has answered: a field
\* that is no string raises where it is first used as one, and the exception
\* becomes an error result
RankAndBuild(query, matches, num_results, made) ==
    IF (matches # <<>> /\ ~IsStr(query.grade_level)) \/ ~IsStr(query.topic)
    THEN Outcome(Return(ErrorResult("Error querying Pinecone")), made, stored_context)
    ELSE BuildResult(
             Take(SortMatches(TopicFilter(
                      ScoreAll(GradeFilter(matches, query.grade_level.s),
                               SplitWhitespace(Lower(query.topic.s))))),
                  num_results),
             made)

QueryCall(subject, env) ==
    [op |-> "query", raised |-> env.query = "raise", top_k |-> TopK,
     filter |-> [country |-> country, subject |-> subject],
     matches |-> IF env.query = "raise" THEN <<>> ELSE IndexQuery(subject, TopK, env)]

\* lines 248-264: the try block up to the answer of index.query
QueryIndex(query, num_results, env, made, call) ==
    IF index = "None" THEN
        Outcome(Return(ErrorResult("Error querying Pinecone")), made, stored_context)
    ELSE IF call.raised THEN
        Outcome(Return(ErrorResult("Error querying Pinecone")), Append(made, call),
                stored_context)
    ELSE RankAndBuild(query, call.matches, num_results, Append(made, call))

EmbedCall(query, env) ==
    [op |-> "embed", raised |-> env.embed = "raise",
     text |-> Join(<<query.subject.s, Str(query.grade_level), Str(query.topic)>>, <<" ">>)]

\* lines 244-246: the query text and its embedding, outside any try block
Embed(query, num_results, env, made) ==
    IF env.embed = "raise"
    THEN Outcome(Raise("EmbeddingError"), Append(made, EmbedCall(query, env)), stored_context)
    ELSE QueryIndex(query, num_results, env, Append(made, EmbedCall(query, env)),
                    QueryCall(query.subject.s, env))

\* lines 230-240: the key check and the subject
CheckAndQuery(parsed, num_results, env, made) ==
    IF parsed.t # "dict"
    THEN Outcome(Raise("TypeError"), made, stored_context)
    ELSE IF ~(required_keys \subseteq DOMAIN parsed.d)
    THEN Outcome(Return(ErrorResult("Query must contain keys")), made, stored_context)
    ELSE IF ~IsStr(parsed.d.subject)
    THEN Outcome(Raise("AttributeError"), made, stored_context)
    ELSE Embed([parsed.d EXCEPT !.subject = JStr(NormalizeSubject(parsed.d.subject.s))],
               num_results, env, made)

StatsCall(env) ==
    [op |-> "describe_index_stats", raised |-> env.stats = "raise",
     total_vector_count |-> Cardinality(vectors)]

\* a retrieval without the empty-index check of lines 219-223
ValidateAndRetrieveNoEmptyCheck(parsed, num_results, env) ==
    IF index = "None"
    THEN Outcome(Return(ErrorResult("Error checking index")), <<>>, stored_context)
    ELSE IF env.stats = "raise"
    THEN Outcome(Return(ErrorResult("Error checking index")), <<StatsCall(env)>>,
                 stored_context)
    ELSE CheckAndQuery(parsed, num_results, env, <<StatsCall(env)>>)

ValidateAndRetrieve(parsed, num_results, env) ==
    IF index = "None"
    THEN Outcome(Return(ErrorResult("Error checking index")), <<>>, stored_context)
    ELSE IF env.stats = "raise"
    THEN Outcome(Return(ErrorResult("Error checking index")), <<StatsCall(env)>>,
                 stored_context)
    ELSE IF Cardinality(vectors) = 0
    THEN Outcome(Return(ErrorResult("Pinecone index is EMPTY")), <<StatsCall(env)>>,
                 stored_context)
    ELSE CheckAndQuery(parsed, num_results, env, <<StatsCall(env)>>)

\* a _run that catches json.JSONDecodeError only
CatchNothing(out) == out

\* except Exception in _run: an exception becomes an error result
Catch(out) ==
    IF out.ret.kind = "raise"
    THEN Outcome(Return(ErrorResult("Unexpected error")), out.calls, out.stored_context)
    ELSE out

\* _run(query): the text is parsed as JSON, and every exception becomes an error
\* result.  The returned JSON text is modelled by the result it encodes.
Run(input, env) ==
    IF input.t = "notjson"
    THEN Outcome(Return(ErrorResult("Query must be JSON")), <<>>, stored_context)
    ELSE Catch(ValidateAndRetrieve(input, NumResults, env))

\* The inputs of _run: text that is not JSON, JSON that is no object, and
\* objects whose fields are present or missing, strings (empty or not) or null.
Subjects == {s_math, s_english, <<>>}

GradeLevels == {s_primary_four, s_primary_7, <<>>}

Topics == {s_fractions, s_Adding_fractions, s_algebra, <<>>}

FullQuery(s, g, tp) == [subject |-> s, grade_level |-> g, topic |-> tp]

RunInputs ==
    {[t |-> "notjson"], [t |-> "number"]}
    \cup {[t |-> "dict", d |-> FullQuery(JStr(s), JStr(g), JStr(tp))] :
             s \in Subjects \ {<<>>}, g \in GradeLevels \ {<<>>}, tp \in Topics \ {<<>>}}
    \cup {[t |-> "dict", d |-> FullQuery(JStr(<<>>), JStr(s_primary_four), JStr(s_fractions))],
          [t |-> "dict", d |-> FullQuery(JStr(s_math), JStr(<<>>), JStr(s_fractions))],
          [t |-> "dict", d |-> FullQuery(JStr(s_math), JStr(s_primary_four), JStr(<<>>))],
          [t |-> "dict", d |-> FullQuery(JStr(<<>>), JStr(<<>>), JStr(<<>>))]}
    \cup {[t |-> "dict", d |-> [grade_level |-> JStr(s_primary_four), topic |-> JStr(s_fractions)]],
          [t |-> "dict", d |-> [subject |-> JStr(s_math), grade_level |-> JStr(s_primary_four)]],
          [t |-> "dict", d |-> FullQuery(JNull, JStr(s_primary_four), JStr(s_fractions))],
          [t |-> "dict", d |-> FullQuery(JStr(s_math), JNull, JStr(s_fractions))],
          [t |-> "dict", d |-> FullQuery(JStr(s_math), JStr(s_primary_four), JNull)]}

\* PineconeRetrievalTool(country): a request builds its own tool; connecting to
\* the index succeeds, or fails and leaves index None.
Construct ==
    /\ \E connected \in BOOLEAN : index' = IF connected THEN "Index" ELSE "None"
    /\ tool' = "built"
    /\ stored_context' = <<>>
    /\ run_query' = [t |-> "none"]
    /\ calls' = <<>>
    /\ run_ret' = NoCall
    /\ UNCHANGED << vectors, gradeVars, weekVars, appVars >>

\* PineconeManager.upsert_content: an ingestion stores new chunks
UpsertContent ==
    /\ \E chunks \in SUBSET ChunkIds :
         /\ chunks # {}
         /\ Cardinality(vectors \cup chunks) <= MaxVectors
         /\ vectors' = vectors \cup chunks
    /\ UNCHANGED << tool, index, stored_context, run_query, calls, run_ret,
                    gradeVars, weekVars, appVars >>

\* clear_index_for_testing, on a tool of its own
ClearIndex ==
    /\ vectors' = {}
    /\ UNCHANGED << tool, index, stored_context, run_query, calls, run_ret,
                    gradeVars, weekVars, appVars >>

\* retrieval_tool.run(json.dumps(payload)): one call on the request's tool
CallRun ==
    /\ tool = "built"
    /\ \E input \in RunInputs : \E env \in Envs : \E out \in {Run(input, env)} :
             /\ run_query' = input
             /\ calls' = out.calls
             /\ run_ret' = out.ret
             /\ stored_context' = out.stored_context
    /\ tool' = "ran"
    /\ UNCHANGED << vectors, index, gradeVars, weekVars, appVars >>

\* parsed queries: no object, an object without topic, and well-formed ones
RankInputs ==
    {[t |-> "number"],
     [t |-> "dict", d |-> [subject |-> JStr(s_math), grade_level |-> JStr(s_primary_four)]]}
    \cup {[t |-> "dict", d |-> FullQuery(JStr(s_math), JStr(g), JStr(tp))] :
             g \in {s_primary_four, s_primary_7}, tp \in Topics \ {<<>>}}

\* _validate_and_retrieve(query, num_results), called on the parsed query with
\* a limit of the caller's; nothing catches what it raises
CallValidateAndRetrieve ==
    /\ tool = "built"
    /\ \E input \in RankInputs : \E env \in Envs :
       \E out \in {ValidateAndRetrieve(input, run_num_results, env)} :
             /\ run_query' = input
             /\ calls' = out.calls
             /\ run_ret' = out.ret
             /\ stored_context' = out.stored_context
    /\ tool' = "ran"
    /\ UNCHANGED << vectors, index, gradeVars, weekVars, appVars >>

-----------------------------------------------------------------------------
(* The record store: utils/supabase_manager.py and utils/session_manager.py *)

TableNames == {"curriculum_context", "schemes", "lesson_plans", "lesson_notes", "exams"}

\* the rows the store may hold in all
MaxRecords == 3

\* the insert attempts one create_lesson_plan call is followed through
MaxInsertAttempts == 3

\* datetime.now().isoformat(): the time is not modelled
s_now == <<"n", "o", "w">>

s_1 == <<"1">>

\* data.get(key): None when the key is missing
Get(data, key) == IF key \in DOMAIN data THEN data[key] ELSE JNull

\* {"context_id": data["context_id"]} if "context_id" in data, else {}
Copied(data, key) == IF key \in DOMAIN data THEN key :> data[key] ELSE <<>>

\* {key: id} if id, else {}
IfGiven(key, id) == IF Truthy(id) THEN key :> id ELSE <<>>

\* a request to the database
DbCall(op, table) == [op |-> op, table |-> table]

\* What a store operation did: the tables it leaves, its return value or
\* exception, and the requests it sent to the database.
Stored(db, ret, made) == [db |-> db, ret |-> ret, calls |-> made]

\* db.table(t).insert(row).execute(): the database raises, or stores the row
\* under the id it issues and answers with it; the caller returns the id, or
\* None from its except block
Insert(db, t, id, row, outcome) ==
    IF outcome = "ok"
    THEN Stored([db EXCEPT ![t] = (id :> row) @@ @], Return(Some(id)),
                <<DbCall("insert", t)>>)
    ELSE Stored(db, Return(None), <<DbCall("insert", t)>>)

\* store_context(subject, grade_level, topic, context, country)
StoreContext(db, id, subject, grade_level, topic, context, ctry, outcome) ==
    Insert(db, "curriculum_context", id,
           [subject |-> NormalizeSubject(subject), grade_level |-> grade_level,
            topic |-> topic, country |-> ctry, context |-> context],
           outcome)

\* SupabaseManager.create_scheme(data)
CreateScheme(db, id, data, outcome) ==
    Insert(db, "schemes", id,
           [payload |-> Get(data, "payload"), content |-> Get(data, "content"),
            created_at |-> s_now] @@ Copied(data, "context_id"),
           outcome)

RequiredGiven(data) == {"payload", "content"} \subseteq DOMAIN data

\* the row create_lesson_plan inserts: the week only when the flag is set and true
LessonPlanRow(wce, scheme_id, data) ==
    [scheme_id |-> scheme_id, payload |-> data.payload, content |-> data.content]
    @@ (IF wce = "true"
        THEN "week" :> (IF "week" \in DOMAIN data THEN data.week ELSE s_1) ELSE <<>>)
    @@ Copied(data, "context_id")

\* SupabaseManager.create_lesson_plan(scheme_id, data), the database answering
\* the successive inserts with outs: after the error about the week column the
\* flag is cleared and the call repeats itself; when the database keeps
\* answering so, the interpreter's recursion limit ends the calls, with a
\* RecursionError that the innermost except block logs (the call returns None)
\* or that overflows again while being logged and leaves the outermost call
RECURSIVE CreateLessonPlan(_, _, _, _, _, _, _, _)
CreateLessonPlan(db, id, wce, scheme_id, data, outs, at_limit, made) ==
    IF ~Truthy(scheme_id) \/ ~RequiredGiven(data)
    THEN [db |-> db, ret |-> Return(None), calls |-> made, wce |-> wce]
    ELSE IF outs = <<>>
    THEN [db |-> db, calls |-> made, wce |-> wce,
          ret |-> IF at_limit = "logged" THEN Return(None) ELSE Raise("RecursionError")]
    ELSE IF Head(outs) = "raise_week"
    THEN CreateLessonPlan(db, id, "false", scheme_id, data, Tail(outs), at_limit,
                          Append(made, DbCall("insert", "lesson_plans")))
    ELSE LET st == Insert(db, "lesson_plans", id, LessonPlanRow(wce, scheme_id, data),
                          Head(outs))
         IN  [db |-> st.db, ret |-> st.ret, calls |-> made \o st.calls, wce |-> wce]

\* SupabaseManager.create_lesson_notes(scheme_id, lesson_plan_id, data)
CreateLessonNotes(db, id, scheme_id, lesson_plan_id, data, outcome) ==
    IF ~Truthy(scheme_id) \/ ~Truthy(lesson_plan_id) \/ ~RequiredGiven(data)
    THEN Stored(db, Return(None), <<>>)
    ELSE Insert(db, "lesson_notes", id,
                [scheme_id |-> scheme_id, lesson_plan_id |-> lesson_plan_id,
                 payload |-> data.payload, content |-> data.content,
                 week |-> IF "week" \in DOMAIN data THEN data.week ELSE s_1]
                @@ Copied(data, "context_id"),
                outcome)

\* SupabaseManager.create_exam(scheme_id, lesson_plan_id, lesson_notes_id, data)
CreateExam(db, id, scheme_id, lesson_plan_id, lesson_notes_id, data, outcome) ==
    IF ~Truthy(scheme_id) \/ ~RequiredGiven(data)
    THEN Stored(db, Return(None), <<>>)
    ELSE Insert(db, "exams", id,
                [scheme_id |-> scheme_id, payload |-> data.payload,
                 content |-> data.content, created_at |-> s_now]
                @@ IfGiven("lesson_plan_id", lesson_plan_id)
                @@ IfGiven("lesson_notes_id", lesson_notes_id)
                @@ Copied(data, "context_id"),
                outcome)

\* the fields update_exam copies from data, and the timestamp it always adds
UpdateData(data) ==
    [k \in DOMAIN data \cap {"payload", "content", "week"} |-> data[k]]
    @@ [updated_at |-> s_now]

\* db.table(t).update(changes).eq("id", id).execute(): the database raises, or
\* changes the row of that id, if there is one, and answers with the rows changed
Update(db, t, id, changes, outcome) ==
    IF outcome = "ok" /\ id # None /\ Val(id) \in DOMAIN db[t]
    THEN Stored([db EXCEPT ![t][Val(id)] = changes @@ @], Return(TRUE),
                <<DbCall("update", t)>>)
    ELSE Stored(db, Return(FALSE), <<DbCall("update", t)>>)

\* an update_exam that changes the row of that id in whichever table holds it
UpdateExamInAnyTable(db, exam_id, data, outcome) ==
    IF \E t \in TableNames : exam_id # None /\ Val(exam_id) \in DOMAIN db[t]
    THEN Update(db, CHOOSE t \in TableNames : Val(exam_id) \in DOMAIN db[t],
                exam_id, UpdateData(data), outcome)
    ELSE Update(db, "exams", exam_id, UpdateData(data), outcome)

\* update_exam(exam_id, data): update_data always holds updated_at, so the
\* update is always sent
UpdateExam(db, exam_id, data, outcome) ==
    Update(db, "exams", exam_id, UpdateData(data), outcome)

\* delete_exam(exam_id)
DeleteExam(db, exam_id, outcome) ==
    IF outcome = "ok" /\ exam_id # None /\ Val(exam_id) \in DOMAIN db.exams
    THEN Stored([db EXCEPT !.exams = [i \in DOMAIN @ \ exam_id |-> @[i]]],
                Return(TRUE), <<DbCall("delete", "exams")>>)
    ELSE Stored(db, Return(FALSE), <<DbCall("delete", "exams")>>)

\* get_scheme, get_lesson_plan, get_lesson_notes, get_exam: the row of that id
\* with its id, or None
GetById(db, t, id, outcome) ==
    IF outcome = "ok" /\ id # None /\ Val(id) \in DOMAIN db[t]
    THEN Stored(db, Return([id |-> id] @@ db[t][Val(id)]), <<DbCall("select", t)>>)
    ELSE Stored(db, Return(JNull), <<DbCall("select", t)>>)

InsertOutcomes == {"ok", "raise"}

\* the answers to the successive inserts of one create_lesson_plan call: the
\* error about the week column some times, then success or another error, or
\* that error every time
PlanOutcomes ==
    {o \in UNION {[1..n -> {"ok", "raise", "raise_week"}] : n \in 1..MaxInsertAttempts} :
        /\ \A i \in 1..(Len(o) - 1) : o[i] = "raise_week"
        /\ o[Len(o)] = "raise_week" => Len(o) = MaxInsertAttempts}

\* at the recursion limit the error is logged, or logging it overflows again
AtLimit(outs) ==
    IF outs[Len(outs)] = "raise_week" THEN {"logged", "overflows"} ELSE {"logged"}

\* the payload and the content of the records created, and those of an update
StorePayload == FullQuery(JStr(s_math), JStr(s_primary_four), JStr(s_fractions))

UpdatedPayload == FullQuery(JStr(s_english), JStr(s_primary_7), JStr(s_algebra))

\* an id argument: None, or the id of a row of the table
IdsOf(t) == {None} \cup {Some(i) : i \in DOMAIN tables[t]}

\* None, or the id of a row of any table
AnyId == UNION {IdsOf(t) : t \in TableNames}

\* the data argument of a create operation: complete, with a context_id, or
\* lacking its content
RecordData ==
    {[payload |-> StorePayload, content |-> s_Adding_fractions],
     [payload |-> StorePayload]}
    \cup {[payload |-> StorePayload, content |-> s_Adding_fractions, context_id |-> c] :
             c \in IdsOf("curriculum_context") \ {None}}

\* the data argument of update_exam: updatable fields, or none of them
ExamChanges ==
    {[payload |-> UpdatedPayload, content |-> s_algebra, week |-> <<"2">>],
     [note |-> s_algebra]}

\* data["week"] = "1" if "week" not in data
WithWeek(data) == data @@ [week |-> s_1]

\* the last operation: its name, what it returned and the requests it sent
Called(op, st) == [op |-> op, ret |-> st.ret, calls |-> st.calls]

\* next_id after an operation: the database issued an id when it stored a row
Issued(db) == IF db # tables THEN next_id + 1 ELSE next_id

-----------------------------------------------------------------------------
(* The embedding model and the tokenizer: get_model and get_tokenizer of   *)
(* embeddings/pinecone_manager.py and of tools/pinecone_exa_tools.py,      *)
(* PineconeManager.__init__ and _get_query_embedding                       *)

\* the callers (threads) of the process
NumCallers == 2

Callers == 1..NumCallers

\* the loader calls and embedding computations one behaviour is followed through
MaxLoaderCalls == 3

\* the modules that hold a `model` and a `tokenizer` global of their own
Modules == {"pinecone_manager", "pinecone_exa_tools"}

\* a caller that is in no loader
NoFrame == [pc |-> "idle"]

\* the global a loader function tests and returns
GlobalOf(fn) == IF fn = "get_model" THEN "model" ELSE "tokenizer"

\* the frame of a call of fn of the module, with the calls that follow it
Frame(fn, module, todo) ==
    [pc |-> "test", fn |-> fn, module |-> module, local |-> None, todo |-> todo]

\* the instances loaded so far; an instance is named by its rank among them
Loaded == {i \in 1..Len(loader_log) : loader_log[i].op = "load"}

\* the calls begun so far: those that returned, those in progress and those
\* that a constructor in progress still has to make
Begun ==
    LET F(t) == IF frames[t] = NoFrame THEN 0 ELSE 1 + Len(frames[t].todo)
        RECURSIVE Sum(_)
        Sum(n) == IF n = 0 THEN 0 ELSE F(n) + Sum(n - 1)
    IN  Len(loader_rets) + Sum(NumCallers)

\* `model = SentenceTransformer(...)`: the name bound is the module's global
\* where the function declares it global; get_tokenizer of pinecone_manager
\* declares `global tokenizer` and binds `model`, a local
BindsGlobal(fn, module) == ~(fn = "get_tokenizer" /\ module = "pinecone_manager")

\* what a call hands back, or an instance put to use
Got(t, fn, module, what, value) ==
    [caller |-> t, fn |-> fn, module |-> module, what |-> what, value |-> value]

-----------------------------------------------------------------------------
(* The scheme-of-work endpoint: api/content_routes.py, generate_scheme *)

\* validate_user_input(query): every required field is there, is not None or
\* empty, and is not blank
ValidateUserInput(query) ==
    \A field \in required_keys :
        /\ field \in DOMAIN query
        /\ IsStr(query[field])
        /\ query[field].s # <<>>
        /\ Strip(query[field].s) # <<>>

\* what the language model writes, and what generate returns when the model
\* call raises
s_Scheme_text == <<"W", "E", "E", "K", " ", "1">>

s_Error_generating == <<"E", "r", "r", "o", "r", " ", "g", "e", "n", "e", "r", "a", "t", "i", "n", "g">>

\* ContentGenerator.generate: the model's text, or the error text
Generated == {s_Scheme_text, s_Error_generating}

HTTPException(code) == Raise([status_code |-> code])

\* result.get('context', ''): the context a caller reads from a result; the
\* "invalid" record carries no "context" entry, which reads as the empty text
ContextOf(result) ==
    IF "context" \in DOMAIN result THEN result.context ELSE <<>>

RunEvent(result) == [op |-> "run", status |-> result.status]

\* What the handler did once the retrieval answered: the tables it leaves, its
\* response or exception, and what it did, in order.
Handled(db, ret, done) == [db |-> db, ret |-> ret, events |-> done]

RowIds(db) == UNION {DOMAIN db[t] : t \in TableNames}

\* How the collaborators answer during one request: the two inserts succeed or
\* raise, and the generator returns `generated`.
Answers(ctx_outcome, generated, scheme_outcome) ==
    [ctx |-> ctx_outcome, generated |-> generated, scheme |-> scheme_outcome]

\* lines 87-98: the scheme is stored with the context's id, and the response built
StoreScheme(payload, ctx, id, how, done) ==
    LET scheme == CreateScheme(ctx.db, id,
                               [payload |-> payload, content |-> how.generated,
                                context_id |-> ctx.ret.value],
                               how.scheme)
    IN  Handled(scheme.db,
                Return([scheme_of_work_id |-> scheme.ret.value,
                        context_id |-> ctx.ret.value,
                        scheme_of_work_output |-> how.generated, status |-> "success"]),
                Append(done, [op |-> "create_scheme"]))

\* lines 62-98: the context is stored, the scheme generated and stored; a
\* failed insert leaves its id None and stops nothing, and the prompt is
\* filled from fields that a validated body always has
StoreAndGenerate(payload, result, db, id, how, done) ==
    LET ctx == StoreContext(db, id, payload.subject.s, payload.grade_level.s,
                            payload.topic.s, ContextOf(result), country, how.ctx)
    IN  StoreScheme(payload, ctx, IF ctx.db # db THEN id + 1 ELSE id, how,
                    done \o <<[op |-> "store_context", context |-> ContextOf(result)],
                              [op |-> "generate", content_type |-> "scheme_of_work"]>>)

\* a handler that does not look at the status of the retrieval
GenerateSchemeUnchecked(payload, result, db, id, how, done) ==
    StoreAndGenerate(payload, result, db, id, how, done)

\* lines 57-101, once retrieval_tool.run has answered: a status other than
\* 'valid' raises HTTPException(400) inside the try block, which the except
\* block turns into HTTPException(500)
GenerateSchemeAfterRun(payload, result, db, id, how, done) ==
    IF result.status # "valid"
    THEN Handled(db, HTTPException(500), done)
    ELSE StoreAndGenerate(payload, result, db, id, how, done)

\* the bodies of the requests: well-formed ones, and ones with a field
\* missing, null, empty or blank
SchemePayloads ==
    {FullQuery(JStr(s_math), JStr(g), JStr(tp)) :
        g \in {s_primary_four, s_primary_7}, tp \in {s_fractions, s_algebra}}
    \cup {[subject |-> JStr(s_math), grade_level |-> JStr(s_primary_four)],
          FullQuery(JStr(s_math), JStr(s_primary_four), JNull),
          FullQuery(JStr(<<>>), JStr(s_primary_four), JStr(s_fractions)),
          FullQuery(JStr(s_math), JStr(<<" ">>), JStr(s_fractions))}

\* the rows the requests may add to the store in all
MaxSchemeRows == 2

-----------------------------------------------------------------------------
(* The week-content extractor: utils/validators.py *)

s_WEEK == <<"W", "E", "E", "K", " ">>

s_week == <<"w", "e", "e", "k">>

s_TOPIC == <<"T", "O", "P", "I", "C", ":">>

s_General_Topic == <<"G", "e", "n", "e", "r", "a", "l", " ", "T", "o", "p", "i", "c">>

Lines(content) == Split(content, <<"\n">>)

RECURSIVE StripAll(_)
StripAll(parts) ==
    IF parts = <<>> THEN <<>> ELSE <<Strip(parts[1])>> \o StripAll(Tail(parts))

\* [p.strip() for p in line.split('|') if p.strip()]
Parts(line) == DropEmpty(StripAll(Split(line, <<"|">>)))

\* content[start_index:] or content[start_index:end_index]
SliceToNext(content, start_index, end_index) ==
    IF end_index = -1 THEN Slice(content, start_index, Len(content))
    ELSE Slice(content, start_index, end_index)

\* a search for the next "WEEK " that starts at the header itself
NextWeekFromHeader(start_index, week_header) == start_index

\* the offset from which the next "WEEK " is searched
NextWeekFrom(start_index, week_header) == start_index + Len(week_header)

ContentFrom(content, week_header, start_index) ==
    IF start_index = -1 THEN <<>>
    ELSE SliceToNext(content, start_index,
                     Find(content, s_WEEK, NextWeekFrom(start_index, week_header)))

ExtractWeekContent(content, w) ==
    ContentFrom(content, s_WEEK \o w, Find(content, s_WEEK \o w, 0))

\* ''.join(filter(str.isdigit, week))
CleanWeek(w) == SelectSeq(w, IsDigit)

\* the line holds "| {clean_week} |" or "|{clean_week}|"
HasWeekCell(line, clean_week) ==
    \/ Contains(line, <<"|", " ">> \o clean_week \o <<" ", "|">>)
    \/ Contains(line, <<"|">> \o clean_week \o <<"|">>)

RECURSIVE TableTopic(_, _)
\* the first loop: the topic column of the first line that holds the week cell
\* and has at least three parts, as {topic}, or {} when there is none
TableTopic(lines, clean_week) ==
    IF lines = <<>> THEN {}
    ELSE IF HasWeekCell(lines[1], clean_week) /\ Len(Parts(lines[1])) >= 3
         THEN {Parts(lines[1])[2]}
         ELSE TableTopic(Tail(lines), clean_week)

\* s.split(sep, 1)[1] for a sep that is not empty and occurs in s
AfterFirst(s, sep) == Slice(s, Find(s, sep, 0) + Len(sep), Len(s))

\* topic_part.split('|')[0] when topic_part holds a '|'
BeforePipe(topic_part) ==
    IF Contains(topic_part, <<"|">>) THEN Split(topic_part, <<"|">>)[1] ELSE topic_part

LineTopic(line, clean_week) == BeforePipe(Strip(AfterFirst(line, clean_week)))

RECURSIVE PatternTopic(_, _)
\* the second loop: the text after the week number in the first line that holds
\* one; line.split('', 1) raises ValueError (empty separator)
PatternTopic(lines, clean_week) ==
    IF lines = <<>> THEN NoCall
    ELSE IF ~Contains(lines[1], clean_week) THEN PatternTopic(Tail(lines), clean_week)
    ELSE IF clean_week = <<>> THEN Raise("ValueError")
    ELSE IF LineTopic(lines[1], clean_week) # <<>>
         THEN Return(LineTopic(lines[1], clean_week))
         ELSE PatternTopic(Tail(lines), clean_week)

RECURSIVE FirstWith(_, _)
\* the first of the lines that holds sub
FirstWith(lines, sub) ==
    IF Contains(lines[1], sub) THEN lines[1] ELSE FirstWith(Tail(lines), sub)

\* the fallbacks: the text after "TOPIC:", or "General Topic"
MarkerTopic(content) ==
    IF Contains(content, s_TOPIC)
    THEN Return(Strip(Split(FirstWith(Lines(content), s_TOPIC), s_TOPIC)[2]))
    ELSE Return(s_General_Topic)

OrElse(found, other) == IF found.kind = "none" THEN other ELSE found

FromTable(hit, other) == IF hit = {} THEN other ELSE Return(Val(hit))

ExtractWeekTopic(content, w) ==
    FromTable(TableTopic(Lines(content), CleanWeek(w)),
              OrElse(PatternTopic(Lines(content), CleanWeek(w)), MarkerTopic(content)))

\* a line with a '|' whose first non-empty cell is a number
IsNumberedRow(line) ==
    /\ Contains(line, <<"|">>)
    /\ Parts(line) # <<>>
    /\ IsDigitStr(Parts(line)[1])

RECURSIVE TableWeeks(_)
\* method 1: the first cell of every numbered table row, in order
TableWeeks(lines) ==
    IF lines = <<>> THEN <<>>
    ELSE IF IsNumberedRow(lines[1])
         THEN <<Parts(lines[1])[1]>> \o TableWeeks(Tail(lines))
         ELSE TableWeeks(Tail(lines))

\* \w
IsWordChar(c) == IsDigit(c) \/ IsUpper(c) \/ IsLower(c) \/ c = "_"

\* \b at offset i, before a word character
BoundaryBefore(s, i) == i = 0 \/ ~IsWordChar(s[i])

\* \b at offset j, after a word character
BoundaryAfter(s, j) == j = Len(s) \/ ~IsWordChar(s[j + 1])

RECURSIVE SpaceRunEnd(_, _)
\* the offset just after the whitespace run of s that starts at offset i
SpaceRunEnd(s, i) ==
    IF i < Len(s) /\ IsSpace(s[i + 1]) THEN SpaceRunEnd(s, i + 1) ELSE i

\* \d+\b at offset i: a digit run that ends at a word boundary
NumberAt(s, i) ==
    /\ i < Len(s)
    /\ IsDigit(s[i + 1])
    /\ BoundaryAfter(s, DigitRunEnd(s, i))

\* \bweek\s*(\d+)\b at offset i, ignoring case
WeekNAt(s, i) ==
    /\ BoundaryBefore(s, i)
    /\ i + 4 <= Len(s)
    /\ Lower(Slice(s, i, i + 4)) = s_week
    /\ NumberAt(s, SpaceRunEnd(s, i + 4))

\* \b(\d+)\b at offset i
BareAt(s, i) == BoundaryBefore(s, i) /\ NumberAt(s, i)

RECURSIVE FindAllWeeks(_, _)
\* re.findall(week_pattern, s, re.IGNORECASE) from offset i, each match given by
\* match[0] or match[1]
FindAllWeeks(s, i) ==
    IF i >= Len(s) THEN <<>>
    ELSE IF WeekNAt(s, i)
    THEN <<Slice(s, SpaceRunEnd(s, i + 4), DigitRunEnd(s, SpaceRunEnd(s, i + 4)))>>
         \o FindAllWeeks(s, DigitRunEnd(s, SpaceRunEnd(s, i + 4)))
    ELSE IF BareAt(s, i)
    THEN <<Slice(s, i, DigitRunEnd(s, i))>> \o FindAllWeeks(s, DigitRunEnd(s, i))
    ELSE FindAllWeeks(s, i + 1)

InSeq(x, seq) == \E i \in 1..Len(seq) : seq[i] = x

RECURSIVE Dedupe(_, _)
\* lines 66-69: each match is appended unless it is in weeks already
Dedupe(matches, weeks) ==
    IF matches = <<>> THEN weeks
    ELSE IF InSeq(matches[1], weeks) THEN Dedupe(Tail(matches), weeks)
    ELSE Dedupe(Tail(matches), Append(weeks, matches[1]))

\* method 2, when method 1 found nothing
OrPattern(weeks, content) ==
    IF weeks = <<>> THEN Dedupe(FindAllWeeks(content, 0), <<>>) ELSE weeks

\* at least week 1
OrWeekOne(weeks) == IF weeks = <<>> THEN << <<"1">> >> ELSE weeks

\* where x goes in the sorted seq: after every element that is not greater
InsertAt(seq, x) == Cardinality({i \in 1..Len(seq) : ToInt(seq[i]) <= ToInt(x)})

InsertSorted(seq, x) ==
    SubSeq(seq, 1, InsertAt(seq, x)) \o <<x>> \o SubSeq(seq, InsertAt(seq, x) + 1, Len(seq))

RECURSIVE SortByInt(_)
\* sorted(weeks, key=int): ascending and stable
SortByInt(weeks) ==
    IF weeks = <<>> THEN <<>>
    ELSE InsertSorted(SortByInt(SubSeq(weeks, 1, Len(weeks) - 1)), weeks[Len(weeks)])

ExtractWeeksFromScheme(content) ==
    SortByInt(OrWeekOne(OrPattern(TableWeeks(Lines(content)), content)))

-----------------------------------------------------------------------------
(* Bounded grade texts: concatenations of a few pieces *)

MaxGradePieces == 4

GradePieces ==
    { <<"p">>, <<" ">>, <<"0">>, <<"4">>, <<"6">>, <<"-">>,
      <<"f", "o", "u", "r">>, <<"F", "o", "u", "r">> }

TextsOf(pieces, n) == {Concat(ps) : ps \in [1..n -> pieces]}

GradeTexts(n) == UNION {TextsOf(GradePieces, k) : k \in 0..n}

GradeIdle ==
    /\ user_grade = <<>>
    /\ stored_grade = <<>>
    /\ grade_ret = NoCall

RetrievalIdle ==
    /\ vectors = {}
    /\ tool = "none"
    /\ index = "None"
    /\ stored_context = <<>>
    /\ run_query = [t |-> "none"]
    /\ calls = <<>>
    /\ run_ret = NoCall

WeekIdle ==
    /\ scheme_content = <<>>
    /\ week = <<>>
    /\ week_ret = NoCall

SubjectIdle ==
    /\ subject_in = <<>>
    /\ subject_rets = <<>>

StoreIdle ==
    /\ tables = [t \in TableNames |-> <<>>]
    /\ next_id = 1
    /\ week_column_exists = "unset"
    /\ session = [current_scheme_id |-> None, current_lesson_plan_id |-> None,
                  current_lesson_notes_id |-> None]
    /\ store_op = [op |-> "none"]

EndpointIdle ==
    /\ request = [t |-> "none"]
    /\ events = <<>>
    /\ http_ret = NoCall

\* no global is set and no caller is in a loader
LoaderIdle ==
    /\ module_globals = [m \in Modules |-> [g \in {"model", "tokenizer"} |-> None]]
    /\ frames = [t \in Callers |-> NoFrame]
    /\ loader_log = <<>>
    /\ loader_rets = <<>>

\* a browser session that has run no script yet
WorkflowIdle ==
    /\ session_state = [content |-> EmptyDict]
    /\ clicked = [key |-> "none", before |-> EmptyDict]

AppIdle ==
    /\ SubjectIdle /\ run_num_results = NumResults /\ StoreIdle /\ EndpointIdle
    /\ LoaderIdle /\ WorkflowIdle

InitGrade ==
    /\ \E k \in 0..MaxGradePieces :
         /\ user_grade \in GradeTexts(k)
         /\ stored_grade \in GradeTexts(MaxGradePieces - k)
    /\ grade_ret = NoCall
    /\ RetrievalIdle
    /\ WeekIdle
    /\ AppIdle

CallGradeMatches ==
    /\ grade_ret = NoCall
    /\ grade_ret' = Return(GradeMatches(user_grade, stored_grade))
    /\ UNCHANGED << user_grade, stored_grade, retrievalVars, weekVars, appVars >>

NextGrade == CallGradeMatches

SpecGrade == InitGrade /\ [][NextGrade]_vars

InitRetrieval == GradeIdle /\ RetrievalIdle /\ WeekIdle /\ AppIdle

NextRetrieval == Construct \/ UpsertContent \/ ClearIndex \/ CallRun

SpecRetrieval == InitRetrieval /\ [][NextRetrieval]_vars

MaxNumResults == 2

\* the retrieval called with a small num_results
InitRank ==
    /\ run_num_results \in 1..MaxNumResults
    /\ SubjectIdle
    /\ StoreIdle
    /\ EndpointIdle
    /\ LoaderIdle
    /\ WorkflowIdle
    /\ GradeIdle
    /\ RetrievalIdle
    /\ WeekIdle

NextRank == Construct \/ UpsertContent \/ ClearIndex \/ CallValidateAndRetrieve

SpecRank == InitRank /\ [][NextRank]_vars

-----------------------------------------------------------------------------
(* The subject normaliser, called on a text and again on its own result *)

MaxSubjectPieces == 2

MaxNormalizeCalls == 2

SubjectPieces ==
    { s_math, s_mathematics, s_english, <<"M", "a", "t", "h">>,
      <<"s">>, <<" ">>, <<"_">>, <<"a", "r", "t">> }

SubjectTexts == UNION {TextsOf(SubjectPieces, k) : k \in 0..MaxSubjectPieces}

InitSubject ==
    /\ subject_in \in SubjectTexts
    /\ subject_rets = <<>>
    /\ GradeIdle
    /\ RetrievalIdle
    /\ WeekIdle
    /\ run_num_results = NumResults
    /\ StoreIdle
    /\ EndpointIdle
    /\ LoaderIdle
    /\ WorkflowIdle

\* normalize_subject(s), then normalize_subject of what the call before returned
CallNormalizeSubject ==
    /\ Len(subject_rets) < MaxNormalizeCalls
    /\ subject_rets' = Append(subject_rets,
            NormalizeSubject(IF subject_rets = <<>> THEN subject_in
                             ELSE subject_rets[Len(subject_rets)]))
    /\ UNCHANGED << loaderVars, workflowVars, subject_in, run_num_results, gradeVars, retrievalVars, weekVars,
                    storeVars, endpointVars >>

NextSubject == CallNormalizeSubject

SpecSubject == InitSubject /\ [][NextSubject]_vars

-----------------------------------------------------------------------------
(* The operations of the record store *)

\* SupabaseManager.store_context
CallStoreContext ==
    /\ next_id <= MaxRecords
    /\ \E outcome \in InsertOutcomes :
       \E st \in {StoreContext(tables, next_id, s_math, s_primary_four, s_fractions,
                               s_Adding_fractions, country, outcome)} :
         /\ tables' = st.db
         /\ next_id' = Issued(st.db)
         /\ store_op' = Called("store_context", st)
    /\ UNCHANGED << loaderVars, workflowVars, week_column_exists, session, endpointVars, subjectVars,
                    run_num_results, gradeVars, retrievalVars, weekVars >>

\* SessionManager.create_scheme
CallCreateScheme ==
    /\ next_id <= MaxRecords
    /\ \E data \in RecordData : \E outcome \in InsertOutcomes :
       \E st \in {CreateScheme(tables, next_id, data, outcome)} :
         /\ tables' = st.db
         /\ next_id' = Issued(st.db)
         /\ session' = [session EXCEPT !.current_scheme_id = st.ret.value]
         /\ store_op' = Called("create_scheme", st)
    /\ UNCHANGED << loaderVars, workflowVars, week_column_exists, endpointVars, subjectVars,
                    run_num_results, gradeVars, retrievalVars, weekVars >>

\* SessionManager.create_lesson_plan: the week defaults to "1"; an exception
\* leaves current_lesson_plan_id as it was
CallCreateLessonPlan ==
    /\ next_id <= MaxRecords
    /\ \E scheme_id \in IdsOf("schemes") : \E data \in RecordData :
       \E outs \in PlanOutcomes : \E at_limit \in AtLimit(outs) :
       \E st \in {CreateLessonPlan(tables, next_id, week_column_exists, scheme_id,
                                   WithWeek(data), outs, at_limit, <<>>)} :
         /\ tables' = st.db
         /\ next_id' = Issued(st.db)
         /\ week_column_exists' = st.wce
         /\ session' = IF st.ret.kind = "raise" THEN session
                       ELSE [session EXCEPT !.current_lesson_plan_id = st.ret.value]
         /\ store_op' = Called("create_lesson_plan", st)
    /\ UNCHANGED << loaderVars, workflowVars, endpointVars, subjectVars, run_num_results, gradeVars,
                    retrievalVars, weekVars >>

\* SessionManager.create_lesson_notes: the week defaults to "1"
CallCreateLessonNotes ==
    /\ next_id <= MaxRecords
    /\ \E scheme_id \in IdsOf("schemes") : \E lesson_plan_id \in IdsOf("lesson_plans") :
       \E data \in RecordData : \E outcome \in InsertOutcomes :
       \E st \in {CreateLessonNotes(tables, next_id, scheme_id, lesson_plan_id,
                                    WithWeek(data), outcome)} :
         /\ tables' = st.db
         /\ next_id' = Issued(st.db)
         /\ session' = [session EXCEPT !.current_lesson_notes_id = st.ret.value]
         /\ store_op' = Called("create_lesson_notes", st)
    /\ UNCHANGED << loaderVars, workflowVars, week_column_exists, endpointVars, subjectVars,
                    run_num_results, gradeVars, retrievalVars, weekVars >>

\* SessionManager.create_exam
CallCreateExam ==
    /\ next_id <= MaxRecords
    /\ \E scheme_id \in IdsOf("schemes") : \E lesson_plan_id \in IdsOf("lesson_plans") :
       \E lesson_notes_id \in IdsOf("lesson_notes") :
       \E data \in RecordData : \E outcome \in InsertOutcomes :
       \E st \in {CreateExam(tables, next_id, scheme_id, lesson_plan_id,
                             lesson_notes_id, data, outcome)} :
         /\ tables' = st.db
         /\ next_id' = Issued(st.db)
         /\ store_op' = Called("create_exam", st)
    /\ UNCHANGED << loaderVars, workflowVars, week_column_exists, session, endpointVars, subjectVars,
                    run_num_results, gradeVars, retrievalVars, weekVars >>

\* SupabaseManager.update_exam, with the id of any row or of none
CallUpdateExam ==
    /\ \E exam_id \in AnyId :
       \E data \in ExamChanges : \E outcome \in InsertOutcomes :
       \E st \in {UpdateExam(tables, exam_id, data, outcome)} :
         /\ tables' = st.db
         /\ store_op' = Called("update_exam", st) @@ [data |-> data]
    /\ UNCHANGED << loaderVars, workflowVars, next_id, week_column_exists, session, endpointVars, subjectVars,
                    run_num_results, gradeVars, retrievalVars, weekVars >>

\* SupabaseManager.delete_exam, with the id of any row or of none
CallDeleteExam ==
    /\ \E exam_id \in AnyId :
       \E outcome \in InsertOutcomes :
       \E st \in {DeleteExam(tables, exam_id, outcome)} :
         /\ tables' = st.db
         /\ store_op' = Called("delete_exam", st)
    /\ UNCHANGED << loaderVars, workflowVars, next_id, week_column_exists, session, endpointVars, subjectVars,
                    run_num_results, gradeVars, retrievalVars, weekVars >>

\* SessionManager.get_scheme, get_lesson_plan, get_lesson_notes, get_exam
CallGetById ==
    /\ \E t \in TableNames \ {"curriculum_context"} :
       \E id \in IdsOf(t) : \E outcome \in InsertOutcomes :
       \E st \in {GetById(tables, t, id, outcome)} :
         store_op' = Called("get", st)
    /\ UNCHANGED << loaderVars, workflowVars, tables, next_id, week_column_exists, session, endpointVars,
                    subjectVars, run_num_results, gradeVars, retrievalVars, weekVars >>

InitStore == GradeIdle /\ RetrievalIdle /\ WeekIdle /\ AppIdle

NextStore ==
    \/ CallStoreContext
    \/ CallCreateScheme
    \/ CallCreateLessonPlan
    \/ CallCreateLessonNotes
    \/ CallCreateExam
    \/ CallUpdateExam
    \/ CallDeleteExam
    \/ CallGetById

SpecStore == InitStore /\ [][NextStore]_vars

-----------------------------------------------------------------------------
(* The requests to the scheme-of-work endpoint *)

\* generate_scheme, lines 35-45: the body is validated, and a body that passes
\* gets a retrieval tool of its own, whose connection to the index succeeds or
\* fails; the body carries no country, which then is "nigeria"
GenerateSchemeBegin ==
    /\ request.t = "none"
    /\ next_id + 1 <= MaxSchemeRows
    /\ \E payload \in SchemePayloads : \E connected \in BOOLEAN :
         IF ~ValidateUserInput(payload)
         THEN /\ http_ret' = HTTPException(400)
              /\ UNCHANGED << request, retrievalVars >>
         ELSE /\ http_ret' = NoCall
              /\ request' = [t |-> "dict", d |-> payload]
              /\ index' = IF connected THEN "Index" ELSE "None"
              /\ tool' = "built"
              /\ stored_context' = <<>>
              /\ run_query' = [t |-> "none"]
              /\ calls' = <<>>
              /\ run_ret' = NoCall
              /\ UNCHANGED vectors
    /\ events' = <<>>
    /\ UNCHANGED << loaderVars, workflowVars, storeVars, subjectVars, run_num_results, gradeVars, weekVars >>

\* generate_scheme, lines 49-101: the index is inspected, the retrieval run on
\* the body, and on a valid result the context and the scheme are stored; the
\* request's tool is gone when the handler returns
GenerateSchemeRetrieve ==
    /\ request.t = "dict"
    /\ tool = "built"
    /\ \E env \in Envs : \E out \in {Run(request, env)} :
       \E ctx_outcome \in InsertOutcomes : \E generated \in Generated :
       \E scheme_outcome \in InsertOutcomes :
       \E h \in {GenerateSchemeAfterRun(request.d, out.ret.value, tables, next_id,
                                        Answers(ctx_outcome, generated, scheme_outcome),
                                        <<[op |-> "debug_index_contents"],
                                          RunEvent(out.ret.value)>>)} :
         /\ tables' = h.db
         /\ next_id' = next_id + Cardinality(RowIds(h.db) \ RowIds(tables))
         /\ session' = IF h.ret.kind = "raise" THEN session
                       ELSE [session EXCEPT
                                !.current_scheme_id = h.ret.value.scheme_of_work_id]
         /\ store_op' = IF h.ret.kind = "raise" THEN store_op
                        ELSE [op |-> "create_scheme",
                              ret |-> Return(h.ret.value.scheme_of_work_id),
                              calls |-> <<DbCall("insert", "schemes")>>]
         /\ events' = h.events
         /\ http_ret' = h.ret
    /\ tool' = "none"
    /\ index' = "None"
    /\ stored_context' = <<>>
    /\ request' = [t |-> "none"]
    /\ UNCHANGED << loaderVars, workflowVars, vectors, run_query, calls, run_ret, week_column_exists, subjectVars,
                    run_num_results, gradeVars, weekVars >>

InitScheme == GradeIdle /\ RetrievalIdle /\ WeekIdle /\ AppIdle

NextScheme == UpsertContent \/ ClearIndex \/ GenerateSchemeBegin \/ GenerateSchemeRetrieve

SpecScheme == InitScheme /\ [][NextScheme]_vars

-----------------------------------------------------------------------------
(* The calls of the loaders *)

\* caller t enters get_model() or get_tokenizer() of a module
Invoke(t) ==
    /\ frames[t] = NoFrame
    /\ Begun < MaxLoaderCalls
    /\ \E fn \in {"get_model", "get_tokenizer"} : \E module \in Modules :
         frames' = [frames EXCEPT ![t] = Frame(fn, module, <<>>)]
    /\ UNCHANGED << module_globals, loader_log, loader_rets >>
    /\ UNCHANGED outsideLoaderVars

\* PineconeManager.__init__, lines 47-48: get_tokenizer(), then get_model()
ConstructPineconeManager(t) ==
    /\ frames[t] = NoFrame
    /\ Begun + 1 < MaxLoaderCalls
    /\ frames' = [frames EXCEPT ![t] = Frame("get_tokenizer", "pinecone_manager",
                                              <<"get_model">>)]
    /\ UNCHANGED << module_globals, loader_log, loader_rets >>
    /\ UNCHANGED outsideLoaderVars

\* `if model is None:` (`if tokenizer is None:`)
TestGlobal(t) ==
    /\ frames[t].pc = "test"
    /\ frames' = [frames EXCEPT ![t].pc =
                    IF module_globals[frames[t].module][GlobalOf(frames[t].fn)] = None
                    THEN "load" ELSE "return"]
    /\ UNCHANGED << module_globals, loader_log, loader_rets >>
    /\ UNCHANGED outsideLoaderVars

\* SentenceTransformer("sentence-transformers/all-MiniLM-L6-v2"): a new instance
Load(t) ==
    /\ frames[t].pc = "load"
    /\ loader_log' = Append(loader_log, [op |-> "load", what |-> GlobalOf(frames[t].fn)])
    /\ frames' = [frames EXCEPT ![t].pc = "bind",
                                 ![t].local = Some(Cardinality(Loaded) + 1)]
    /\ UNCHANGED << module_globals, loader_rets >>
    /\ UNCHANGED outsideLoaderVars

\* the instance is bound to the name on the left of the assignment
Bind(t) ==
    /\ frames[t].pc = "bind"
    /\ IF BindsGlobal(frames[t].fn, frames[t].module)
       THEN /\ module_globals' = [module_globals EXCEPT
                    ![frames[t].module][GlobalOf(frames[t].fn)] = frames[t].local]
            /\ loader_log' = Append(loader_log,
                    [op |-> "assign", module |-> frames[t].module,
                     what |-> GlobalOf(frames[t].fn), value |-> frames[t].local])
       ELSE UNCHANGED << module_globals, loader_log >>
    /\ frames' = [frames EXCEPT ![t].pc = "return"]
    /\ UNCHANGED loader_rets
    /\ UNCHANGED outsideLoaderVars

\* `return model` (`return tokenizer`): the global as it is now; a constructor
\* goes on to its next call
ReturnGlobal(t) ==
    /\ frames[t].pc = "return"
    /\ loader_rets' = Append(loader_rets,
            Got(t, frames[t].fn, frames[t].module, GlobalOf(frames[t].fn),
                module_globals[frames[t].module][GlobalOf(frames[t].fn)]))
    /\ frames' = [frames EXCEPT ![t] =
            IF frames[t].todo = <<>> THEN NoFrame
            ELSE Frame(Head(frames[t].todo), frames[t].module, Tail(frames[t].todo))]
    /\ UNCHANGED << module_globals, loader_log >>
    /\ UNCHANGED outsideLoaderVars

\* _get_query_embedding, lines 347-350, in a retrieval call: a tokenizer and a
\* model are loaded from the hub and put to use
GetQueryEmbedding(t) ==
    /\ frames[t] = NoFrame
    /\ Begun < MaxLoaderCalls
    /\ loader_log' = loader_log \o <<[op |-> "load", what |-> "tokenizer"],
                                      [op |-> "load", what |-> "model"]>>
    /\ loader_rets' = Append(loader_rets,
            Got(t, "_get_query_embedding", "pinecone_exa_tools", "both",
                Some(Cardinality(Loaded) + 2)))
    /\ UNCHANGED << module_globals, frames >>
    /\ UNCHANGED outsideLoaderVars

InitLoader == GradeIdle /\ RetrievalIdle /\ WeekIdle /\ AppIdle

\* one caller: every call returns before the next begins
NextLoader ==
    \/ Invoke(1)
    \/ ConstructPineconeManager(1)
    \/ TestGlobal(1)
    \/ Load(1)
    \/ Bind(1)
    \/ ReturnGlobal(1)
    \/ GetQueryEmbedding(1)

SpecLoader == InitLoader /\ [][NextLoader]_vars

\* the callers of the process, interleaved
NextLoaderThreads ==
    \E t \in Callers :
        \/ Invoke(t)
        \/ ConstructPineconeManager(t)
        \/ TestGlobal(t)
        \/ Load(t)
        \/ Bind(t)
        \/ ReturnGlobal(t)
        \/ GetQueryEmbedding(t)

SpecLoaderThreads == InitLoader /\ [][NextLoaderThreads]_vars

-----------------------------------------------------------------------------
(* The lesson-plan, lesson-notes and exam endpoints: api/content_routes.py *)

\* the rows the three endpoints may add to the store in all
MaxContentRows == 2

\* payload.get(key, default), d.get(key, default)
GetOr(d, key, default) == IF key \in DOMAIN d THEN d[key] ELSE default

\* str(payload.get("week")): the week of the body, or "None"
WeekOf(payload) == GetOr(payload, "week", s_None)

\* What a handler did: the tables it leaves, its response or exception, what
\* it did, in order, the week flag of the store and what its create call
\* answered, if it made one.
Served(db, ret, done, wce, created) ==
    [db |-> db, ret |-> ret, events |-> done, wce |-> wce, created |-> created]

\* the request as the first entry of what a handler did
Asked(endpoint, payload) == <<[op |-> "request", endpoint |-> endpoint, payload |-> payload]>>

GenerateEvent(content_type, generated) ==
    [op |-> "generate", content_type |-> content_type, outcome |-> generated.kind]

\* generate_lesson_plan, lines 138-169: the plan is generated and stored with
\* the scheme's context_id; an exception of the generator or of the store
\* becomes HTTPException(500)
StoreLessonPlan(payload, scheme_data, week_topic, db, id, wce, how, done) ==
    LET st == CreateLessonPlan(db, id, wce, payload.scheme_of_work_id,
                  WithWeek([payload |-> [subject |-> GetOr(scheme_data.payload, "subject", JStr(<<>>)),
                                         grade_level |-> GetOr(scheme_data.payload, "grade_level", JStr(<<>>)),
                                         topic |-> week_topic,
                                         limitations |-> GetOr(payload, "limitations", <<>>),
                                         week |-> WeekOf(payload)],
                            content |-> how.generated.value,
                            context_id |-> scheme_data.context_id]),
                  how.plan, how.at_limit, <<>>)
        made == done \o <<GenerateEvent("lesson_plan", how.generated),
                          [op |-> "create_lesson_plan"]>>
    IN  IF how.generated.kind = "raise"
        THEN Served(db, HTTPException(500),
                    Append(done, GenerateEvent("lesson_plan", how.generated)), wce, NoCall)
        ELSE IF st.ret.kind = "raise"
        THEN Served(st.db, HTTPException(500), made, st.wce, st)
        ELSE Served(st.db,
                    Return([scheme_of_work_id |-> payload.scheme_of_work_id,
                            lesson_plan_id |-> st.ret.value,
                            lesson_plan_output |-> how.generated.value,
                            context_id |-> scheme_data.context_id,
                            week |-> WeekOf(payload), status |-> "success"]),
                    made, st.wce, st)

\* a lesson-plan handler that does not look at the scheme's context_id
LessonPlanFromAnyScheme(payload, scheme_data, db, id, wce, how, done) ==
    LET week_topic == ExtractWeekTopic(GetOr(scheme_data, "content", <<>>), WeekOf(payload))
    IN  IF week_topic.kind = "raise" THEN Served(db, HTTPException(500), done, wce, NoCall)
        ELSE IF week_topic.value = <<>> THEN Served(db, HTTPException(400), done, wce, NoCall)
        ELSE StoreLessonPlan(payload, scheme_data, week_topic.value, db, id, wce, how, done)

\* generate_lesson_plan, lines 122-136, with the scheme at hand: a scheme
\* without a context_id and a week without a topic are refused
LessonPlanFromScheme(payload, scheme_data, db, id, wce, how, done) ==
    IF ~Truthy(GetOr(scheme_data, "context_id", None))
    THEN Served(db, HTTPException(400), done, wce, NoCall)
    ELSE LET week_topic == ExtractWeekTopic(GetOr(scheme_data, "content", <<>>),
                                            WeekOf(payload))
         IN  IF week_topic.kind = "raise" THEN Served(db, HTTPException(500), done, wce, NoCall)
             ELSE IF week_topic.value = <<>>
                  THEN Served(db, HTTPException(400), done, wce, NoCall)
                  ELSE StoreLessonPlan(payload, scheme_data, week_topic.value, db, id, wce,
                                       how, done)

\* generate_lesson_plan(payload): the scheme is fetched twice, and each fetch
\* may fail
GenerateLessonPlan(payload, db, id, wce, how) ==
    LET scheme_id == GetOr(payload, "scheme_of_work_id", None)
        done == Asked("lesson-plan", payload)
    IN  IF ~Truthy(scheme_id) \/ GetById(db, "schemes", scheme_id, how.get[1]).ret.value = JNull
        THEN Served(db, HTTPException(400), done, wce, NoCall)
        ELSE IF GetById(db, "schemes", scheme_id, how.get[2]).ret.value = JNull
        THEN Served(db, HTTPException(404), done, wce, NoCall)
        ELSE LessonPlanFromScheme(payload,
                                  GetById(db, "schemes", scheme_id, how.get[2]).ret.value,
                                  db, id, wce, how, done)

\* generate_notes, lines 192-239, inside the try block: every exception,
\* HTTPException included, becomes HTTPException(500)
NotesFromRecords(payload, scheme, lesson_plan, db, id, wce, how, done) ==
    IF scheme = JNull \/ lesson_plan = JNull
    THEN Served(db, HTTPException(500), done, wce, NoCall)
    ELSE IF ~Truthy(GetOr(scheme, "context_id", None))
    THEN Served(db, HTTPException(500), done, wce, NoCall)
    ELSE IF how.generated.kind = "raise"
    THEN Served(db, HTTPException(500),
                Append(done, GenerateEvent("lesson_notes", how.generated)), wce, NoCall)
    ELSE LET st == CreateLessonNotes(db, id, payload.scheme_of_work_id,
                       payload.lesson_plan_id,
                       WithWeek([payload |-> [teaching_method |-> GetOr(payload, "teaching_method", <<>>),
                                              topic |-> GetOr(payload, "topic", <<>>),
                                              week |-> payload.week],
                                 content |-> how.generated.value,
                                 context_id |-> scheme.context_id]),
                       how.insert)
         IN  Served(st.db,
                    Return([scheme_of_work_id |-> payload.scheme_of_work_id,
                            lesson_plan_id |-> payload.lesson_plan_id,
                            lesson_notes_id |-> st.ret.value,
                            content |-> how.generated.value,
                            context_id |-> scheme.context_id,
                            week |-> payload.week, status |-> "success"]),
                    done \o <<GenerateEvent("lesson_notes", how.generated),
                              [op |-> "create_lesson_notes"]>>,
                    wce, st)

\* generate_notes(payload)
GenerateNotes(payload, db, id, wce, how) ==
    IF ~({"scheme_of_work_id", "lesson_plan_id", "week"} \subseteq DOMAIN payload)
    THEN Served(db, HTTPException(400), Asked("lesson-notes", payload), wce, NoCall)
    ELSE NotesFromRecords(payload,
             GetById(db, "schemes", payload.scheme_of_work_id, how.get[1]).ret.value,
             GetById(db, "lesson_plans", payload.lesson_plan_id, how.get[2]).ret.value,
             db, id, wce, how, Asked("lesson-notes", payload))

\* default_configs, lines 365-390: the weeks an exam type covers
weeks_covered == [quiz |-> 2, mid_term |-> 6, end_of_term |-> 12, final_exam |-> 36]

RECURSIVE WeekText(_)
\* str(week) of a week number
WeekText(w) ==
    IF w < 10 THEN <<Digits[w + 1]>> ELSE WeekText(w \div 10) \o <<Digits[(w % 10) + 1]>>

\* the rows of the table that belong to the scheme, or none when the select raises
ByScheme(db, t, scheme_id, outcome) ==
    IF outcome = "ok" THEN {i \in DOMAIN db[t] : db[t][i].scheme_id = scheme_id} ELSE {}

\* the weeks of the exam for which one of the rows has that week in its payload
WeeksWith(db, t, rows, weeks) ==
    {w \in weeks : \E i \in rows : GetOr(db[t][i].payload, "week", <<>>) = WeekText(w)}

\* an exam content that keeps the text of a generator that raised
ExamContentKept(generated) == s_Error_generating

\* lines 484-509: the content is empty when the generator raises
ExamContent(generated) == IF generated.kind = "raise" THEN <<>> ELSE generated.value

\* generate_exam, lines 398-551, with the scheme and the exam type at hand: an
\* exception of a topic extraction becomes HTTPException(500), one of the
\* generator is printed, and the exam is stored with what there is
ExamFromScheme(payload, scheme, db, id, wce, how, done) ==
    LET weeks == 1..weeks_covered[payload.exam_type]
        plans == ByScheme(db, "lesson_plans", payload.scheme_of_work_id, how.get[2])
        notes == ByScheme(db, "lesson_notes", payload.scheme_of_work_id, how.get[3])
        topics == [w \in weeks |-> ExtractWeekTopic(GetOr(scheme, "content", <<>>), WeekText(w))]
        materials_used ==
            [lesson_plans |-> Cardinality(WeeksWith(db, "lesson_plans", plans, weeks)),
             lesson_notes |-> Cardinality(WeeksWith(db, "lesson_notes", notes, weeks))]
        st == CreateExam(db, id, payload.scheme_of_work_id, None, None,
                         [payload |-> [exam_type |-> payload.exam_type,
                                       weeks_covered |-> weeks,
                                       country |-> GetOr(scheme.payload, "country", country),
                                       materials_used |-> materials_used],
                          content |-> ExamContent(how.generated),
                          context_id |-> GetOr(scheme, "context_id", None)],
                         how.insert)
    IN  IF \E w \in weeks : topics[w].kind = "raise"
        THEN Served(db, HTTPException(500), done, wce, NoCall)
        ELSE Served(st.db,
                    Return([exam_id |-> st.ret.value, exam_type |-> payload.exam_type,
                            materials_used |-> materials_used,
                            content |-> ExamContent(how.generated), status |-> "success"]),
                    done \o <<GenerateEvent("exam_generator", how.generated),
                              [op |-> "create_exam", outcome |-> how.insert]>>,
                    wce, st)

\* generate_exam(payload)
GenerateExam(payload, db, id, wce, how) ==
    IF ~({"scheme_of_work_id", "exam_type"} \subseteq DOMAIN payload)
    THEN Served(db, HTTPException(400), Asked("exam", payload), wce, NoCall)
    ELSE IF GetById(db, "schemes", payload.scheme_of_work_id, how.get[1]).ret.value = JNull
    THEN Served(db, HTTPException(404), Asked("exam", payload), wce, NoCall)
    ELSE IF payload.exam_type \notin DOMAIN weeks_covered
    THEN Served(db, HTTPException(400), Asked("exam", payload), wce, NoCall)
    ELSE ExamFromScheme(payload,
                        GetById(db, "schemes", payload.scheme_of_work_id, how.get[1]).ret.value,
                        db, id, wce, how, Asked("exam", payload))

\* generator.generate: the model's text, or an exception of _build_prompt,
\* which runs outside the try block of generate
Generations == {Return(s_Scheme_text), Raise("KeyError")}

\* the answers of the n selects of a request: all succeed, or one raises
Selects(n) == {g \in [1..n -> InsertOutcomes] : Cardinality({i \in 1..n : g[i] = "raise"}) <= 1}

\* the database answers the insert of a plan at once, or keeps raising the
\* error about the week column
PlanAnswers == {o \in PlanOutcomes : Len(o) = 1 \/ o[Len(o)] = "raise_week"}

\* the store after the scheme-of-work endpoint served a valid request: the
\* context and the scheme, or, when the insert of the context failed, the
\* scheme alone and without context_id
AfterScheme(ctx_outcome) ==
    StoreAndGenerate(StorePayload, [status |-> "valid", context |-> s_Adding_fractions],
                     [t \in TableNames |-> <<>>], 1,
                     Answers(ctx_outcome, s_Scheme_text, "ok"), <<>>)

\* the ids a body may name: those of the table's rows, and one of no row
Refs(t) == {Some(i) : i \in DOMAIN tables[t]} \cup {Some(next_id)}

LessonPlanPayloads ==
    {[scheme_of_work_id |-> s, week |-> s_1] : s \in Refs("schemes")}
    \cup {[scheme_of_work_id |-> s] : s \in Refs("schemes")}
    \cup {[week |-> s_1]}

NotesPayloads ==
    {[scheme_of_work_id |-> s, lesson_plan_id |-> p, week |-> s_1] :
        s \in Refs("schemes"), p \in Refs("lesson_plans")}
    \cup {[scheme_of_work_id |-> s, week |-> s_1] : s \in Refs("schemes")}

ExamPayloads ==
    {[scheme_of_work_id |-> s, exam_type |-> e] :
        s \in Refs("schemes"), e \in {"quiz", "end_of_term", "viva"}}
    \cup {[exam_type |-> "quiz"]}

\* the rows the three endpoints have added
ContentRows ==
    DOMAIN tables.lesson_plans \cup DOMAIN tables.lesson_notes \cup DOMAIN tables.exams

-----------------------------------------------------------------------------
(* The requests to the lesson-plan, lesson-notes and exam endpoints *)

\* POST /lesson-plan; SessionManager.create_lesson_plan keeps the id
PostLessonPlan ==
    /\ Cardinality(ContentRows) < MaxContentRows
    /\ \E payload \in LessonPlanPayloads : \E get \in Selects(2) :
       \E generated \in Generations : \E outs \in PlanAnswers :
       \E at_limit \in AtLimit(outs) :
       \E h \in {GenerateLessonPlan(payload, tables, next_id, week_column_exists,
                                     [get |-> get, generated |-> generated,
                                      plan |-> outs, at_limit |-> at_limit])} :
         /\ tables' = h.db
         /\ next_id' = Issued(h.db)
         /\ week_column_exists' = h.wce
         /\ session' = IF h.created = NoCall \/ h.created.ret.kind = "raise" THEN session
                       ELSE [session EXCEPT !.current_lesson_plan_id = h.created.ret.value]
         /\ store_op' = IF h.created = NoCall THEN store_op
                        ELSE Called("create_lesson_plan", h.created)
         /\ events' = h.events
         /\ http_ret' = h.ret
    /\ UNCHANGED << request, gradeVars, retrievalVars, weekVars, subjectVars,
                    run_num_results, loaderVars, workflowVars >>

\* POST /lesson-notes; SessionManager.create_lesson_notes keeps the id
PostLessonNotes ==
    /\ Cardinality(ContentRows) < MaxContentRows
    /\ \E payload \in NotesPayloads : \E get \in Selects(2) :
       \E generated \in Generations : \E insert \in InsertOutcomes :
       \E h \in {GenerateNotes(payload, tables, next_id, week_column_exists,
                                [get |-> get, generated |-> generated, insert |-> insert])} :
         /\ tables' = h.db
         /\ next_id' = Issued(h.db)
         /\ session' = IF h.created = NoCall THEN session
                       ELSE [session EXCEPT !.current_lesson_notes_id = h.created.ret.value]
         /\ store_op' = IF h.created = NoCall THEN store_op
                        ELSE Called("create_lesson_notes", h.created)
         /\ events' = h.events
         /\ http_ret' = h.ret
    /\ UNCHANGED << request, week_column_exists, gradeVars, retrievalVars, weekVars,
                    subjectVars, run_num_results, loaderVars, workflowVars >>

\* POST /exam
PostExam ==
    /\ Cardinality(ContentRows) < MaxContentRows
    /\ \E payload \in ExamPayloads : \E get \in Selects(3) :
       \E generated \in Generations : \E insert \in InsertOutcomes :
       \E h \in {GenerateExam(payload, tables, next_id, week_column_exists,
                               [get |-> get, generated |-> generated, insert |-> insert])} :
         /\ tables' = h.db
         /\ next_id' = Issued(h.db)
         /\ store_op' = IF h.created = NoCall THEN store_op
                        ELSE Called("create_exam", h.created)
         /\ events' = h.events
         /\ http_ret' = h.ret
    /\ UNCHANGED << request, week_column_exists, session, gradeVars, retrievalVars,
                    weekVars, subjectVars, run_num_results, loaderVars, workflowVars >>

\* the store holds what one request to the scheme-of-work endpoint left
InitContent ==
    /\ \E ctx_outcome \in InsertOutcomes :
       \E h \in {AfterScheme(ctx_outcome)} :
         /\ tables = h.db
         /\ next_id = Cardinality(RowIds(h.db)) + 1
         /\ session = [current_scheme_id |-> h.ret.value.scheme_of_work_id,
                       current_lesson_plan_id |-> None, current_lesson_notes_id |-> None]
         /\ store_op = [op |-> "create_scheme", ret |-> Return(h.ret.value.scheme_of_work_id),
                        calls |-> <<DbCall("insert", "schemes")>>]
    /\ week_column_exists = "unset"
    /\ EndpointIdle
    /\ GradeIdle
    /\ RetrievalIdle
    /\ WeekIdle
    /\ SubjectIdle
    /\ run_num_results = NumResults
    /\ LoaderIdle
    /\ WorkflowIdle

NextContent == PostLessonPlan \/ PostLessonNotes \/ PostExam

SpecContent == InitContent /\ [][NextContent]_vars

-----------------------------------------------------------------------------
(* The content-generation workflow of the Streamlit app (src/app.py and    *)
(* src/streamlit_app.py).  One action is one run of content_generation_tab *)
(* in which the user pressed one of the buttons the previous run drew.     *)

\* the ids a response may carry: None after a failed insert, or a row's id
MaxResultIds == 2

ResultIds == {None} \cup {Some(i) : i \in 1..MaxResultIds}

\* the keys of st.session_state.content, in the order of the four steps
Steps == << "scheme", "lesson_plan", "lesson_notes", "exam" >>

\* what ContentGenerator.generate_* gets from the API: a 200 with the id of
\* the record, or any other status (then it returns None)
Responses == {[status_code |-> 200, id |-> i] : i \in ResultIds}
                 \cup {[status_code |-> 500, id |-> None]}

\* content[key] = {'id': id, ...}
Put(d, key, id) == [k \in DOMAIN d \cup {key} |-> IF k = key THEN [id |-> id] ELSE d[k]]

\* if key in content: del content[key], for each of the keys
Del(d, keys) == [k \in DOMAIN d \ keys |-> d[k]]

\* content[key]['id'][:8] : KeyError without the key, TypeError on the id None
Sliceable(d, key) == key \in DOMAIN d /\ d[key].id # None

\* step 2 raises while it draws generate_lesson_plan_ui
Step2Raises(c) ==
    "lesson_plan" \notin DOMAIN c /\ "scheme" \in DOMAIN c /\ ~Sliceable(c, "scheme")

\* step 3 raises while it draws generate_lesson_notes_ui
Step3Raises(c) ==
    /\ "lesson_notes" \notin DOMAIN c /\ "lesson_plan" \in DOMAIN c
    /\ ~(Sliceable(c, "scheme") /\ Sliceable(c, "lesson_plan"))

\* step 4 raises while it draws generate_exam_ui
Step4Raises(c) ==
    "exam" \notin DOMAIN c /\ "lesson_notes" \in DOMAIN c /\ ~Sliceable(c, "scheme")

\* the run draws step n: no earlier step has raised
Reached(n, c) ==
    /\ n > 2 => ~Step2Raises(c)
    /\ n > 3 => ~Step3Raises(c)

\* if result: st.session_state.content[key] = {...}
WithResult(c, key, response) ==
    IF response.status_code = 200 THEN Put(c, key, response.id) ELSE c

\* the run ends with this content, after the press of this button
Click(key, c) ==
    /\ clicked' = [key |-> key, before |-> session_state.content]
    /\ session_state' = [session_state EXCEPT !.content = c]
    /\ UNCHANGED outsideWorkflowVars

\* generate_scheme_ui: "Generate Scheme of Work"
GenerateSchemeUi ==
    /\ "scheme" \notin DOMAIN session_state.content
    /\ \E response \in Responses :
         Click("generate_scheme", WithResult(session_state.content, "scheme", response))

\* "Generate New Scheme"
NewScheme ==
    /\ "scheme" \in DOMAIN session_state.content
    /\ Click("new_scheme", EmptyDict)

\* generate_lesson_plan_ui: "Generate Lesson Plan"
GenerateLessonPlanUi ==
    /\ "lesson_plan" \notin DOMAIN session_state.content
    /\ "scheme" \in DOMAIN session_state.content
    /\ ~Step2Raises(session_state.content)
    /\ \E response \in Responses :
         Click("generate_lesson_plan",
               WithResult(session_state.content, "lesson_plan", response))

\* a "Generate New Lesson Plan" that deletes the lesson plan alone
NewLessonPlanAlone ==
    /\ "lesson_plan" \in DOMAIN session_state.content
    /\ Click("new_lesson_plan", Del(session_state.content, {"lesson_plan"}))

\* "Generate New Lesson Plan"
NewLessonPlan ==
    /\ "lesson_plan" \in DOMAIN session_state.content
    /\ Click("new_lesson_plan",
             Del(session_state.content, {"lesson_plan", "lesson_notes", "exam"}))

\* generate_lesson_notes_ui: "Generate Lesson Notes"
GenerateLessonNotesUi ==
    /\ Reached(3, session_state.content)
    /\ "lesson_notes" \notin DOMAIN session_state.content
    /\ "lesson_plan" \in DOMAIN session_state.content
    /\ ~Step3Raises(session_state.content)
    /\ \E response \in Responses :
         Click("generate_lesson_notes",
               WithResult(session_state.content, "lesson_notes", response))

\* "Generate New Lesson Notes"
NewLessonNotes ==
    /\ Reached(3, session_state.content)
    /\ "lesson_notes" \in DOMAIN session_state.content
    /\ Click("new_lesson_notes", Del(session_state.content, {"lesson_notes", "exam"}))

\* generate_exam_ui: "Generate Exam"
GenerateExamUi ==
    /\ Reached(4, session_state.content)
    /\ "exam" \notin DOMAIN session_state.content
    /\ "lesson_notes" \in DOMAIN session_state.content
    /\ ~Step4Raises(session_state.content)
    /\ \E response \in Responses :
         Click("gen_exam", WithResult(session_state.content, "exam", response))

\* "Generate New Exam"
NewExam ==
    /\ Reached(4, session_state.content)
    /\ "exam" \in DOMAIN session_state.content
    /\ Click("new_exam", Del(session_state.content, {"exam"}))

\* main(): if 'content' not in st.session_state: st.session_state.content = {}
InitWorkflow == GradeIdle /\ RetrievalIdle /\ WeekIdle /\ AppIdle

NextWorkflow ==
    \/ GenerateSchemeUi
    \/ NewScheme
    \/ GenerateLessonPlanUi
    \/ NewLessonPlan
    \/ GenerateLessonNotesUi
    \/ NewLessonNotes
    \/ GenerateExamUi
    \/ NewExam

SpecWorkflow == InitWorkflow /\ [][NextWorkflow]_vars

-----------------------------------------------------------------------------
(* Bounded inputs of the week-content extractor *)

MaxTopicLines == 3

MaxContentPieces == 5

MaxWeekLines == 3

\* lines of a scheme: table rows, free text and a TOPIC: marker
TopicLines ==
    { <<"|", " ", "1", " ", "|", " ", "A", " ", "|", " ", "x", " ", "|">>,
      <<"|", " ", "2", " ", "|", " ", "B", " ", "|", " ", "x", " ", "|">>,
      <<"|", " ", "1", " ", "|", " ", "A", " ", "|", " ", "2", " ", "|">>,
      <<"|", " ", "2", " ", "|", " ", "B", " ", "|", " ", "1", " ", "|">>,
      <<"|", "2", "|", "B", "|", "x", "|">>,
      <<"|", " ", "1", " ", "|", " ", "A", " ", "|">>,
      <<"|", " ", "1", " ", "|", " ", " ", "|", " ", "x", " ", "|">>,
      <<>>,
      <<"T", "O", "P", "I", "C", ":", " ", "A">>,
      <<"W", "e", "e", "k", " ", "1", ":", " ", "A">>,
      <<"x">> }

\* week arguments: str(payload.get("week")) is "None" when the week is missing
TopicWeeks ==
    { <<"1">>,
      <<"2">>,
      <<"W", "e", "e", "k", " ", "2">>,
      <<"N", "o", "n", "e">> }

\* pieces of a lesson plan or notes text
ContentPieces ==
    { <<"W", "E", "E", "K", " ">>,
      <<"1">>,
      <<"2">>,
      <<"a">>,
      <<"\n">> }

\* week arguments of extract_week_content
ContentWeeks ==
    { <<"1">>,
      <<"2">>,
      <<"1", "2">>,
      <<>> }

\* lines of a scheme that extract_weeks_from_scheme scans
WeekLines ==
    { <<"|", " ", "1", " ", "|", " ", "A", " ", "|">>,
      <<"|", " ", "2", " ", "|", " ", "B", " ", "|">>,
      <<"|", " ", "0", "1", " ", "|", " ", "A", " ", "|">>,
      <<"|", " ", "1", "0", " ", "|", " ", "A", " ", "|">>,
      <<"|", " ", "W", "e", "e", "k", " ", "|", " ", "T", "o", "p", "i", "c", " ", "|">>,
      <<"W", "e", "e", "k", " ", "2">>,
      <<"w", "e", "e", "k", "1", " ", "3">>,
      <<"a", "1", " ", "b">>,
      <<>> }

\* the texts of 1..n lines, joined by newlines
TextsOfLines(lines, n) ==
    UNION {{Join(ls, <<"\n">>) : ls \in [1..k -> lines]} : k \in 1..n}

InitWeekTopic ==
    /\ scheme_content \in TextsOfLines(TopicLines, MaxTopicLines)
    /\ week \in TopicWeeks
    /\ week_ret = NoCall
    /\ GradeIdle
    /\ RetrievalIdle
    /\ AppIdle

CallExtractWeekTopic ==
    /\ week_ret = NoCall
    /\ week_ret' = ExtractWeekTopic(scheme_content, week)
    /\ UNCHANGED << scheme_content, week, gradeVars, retrievalVars, appVars >>

NextWeekTopic == CallExtractWeekTopic

SpecWeekTopic == InitWeekTopic /\ [][NextWeekTopic]_vars

InitWeekContent ==
    /\ scheme_content \in UNION {TextsOf(ContentPieces, k) : k \in 0..MaxContentPieces}
    /\ week \in ContentWeeks
    /\ week_ret = NoCall
    /\ GradeIdle
    /\ RetrievalIdle
    /\ AppIdle

CallExtractWeekContent ==
    /\ week_ret = NoCall
    /\ week_ret' = Return(ExtractWeekContent(scheme_content, week))
    /\ UNCHANGED << scheme_content, week, gradeVars, retrievalVars, appVars >>

NextWeekContent == CallExtractWeekContent

SpecWeekContent == InitWeekContent /\ [][NextWeekContent]_vars

InitWeeks ==
    /\ scheme_content \in {<<>>} \cup TextsOfLines(WeekLines, MaxWeekLines)
    /\ week = <<>>
    /\ week_ret = NoCall
    /\ GradeIdle
    /\ RetrievalIdle
    /\ AppIdle

CallExtractWeeksFromScheme ==
    /\ week_ret = NoCall
    /\ week_ret' = Return(ExtractWeeksFromScheme(scheme_content))
    /\ UNCHANGED << scheme_content, week, gradeVars, retrievalVars, appVars >>

NextWeeks == CallExtractWeeksFromScheme

SpecWeeks == InitWeeks /\ [][NextWeeks]_vars

-----------------------------------------------------------------------------
(* Claims about the grade matcher *)

GradeCalled == grade_ret.kind = "return"

\* C1: when a number n is extracted from the query grade and the stored grade
\* contains a hyphen and has the first two digit sequences a and b,
\* _grade_matches returns true if and only if a <= n <= b.
C1_RangeMatchIffWithin ==
    ( /\ GradeCalled
      /\ ExtractGradeNumber(user_grade) # None
      /\ Contains(stored_grade, <<"-">>)
      /\ Len(FindAllDigits(stored_grade)) >= 2 )
    => ( grade_ret.value
         <=> ( /\ ToInt(FindAllDigits(stored_grade)[1]) <= Val(ExtractGradeNumber(user_grade))
               /\ Val(ExtractGradeNumber(user_grade)) <= ToInt(FindAllDigits(stored_grade)[2]) ) )

\* C2: when the stored grade has no hyphen and the number m is extracted from
\* it, and n is extracted from the query grade, _grade_matches returns true if
\* and only if n = m.
C2_SingleMatchIffEqual ==
    ( /\ GradeCalled
      /\ ~Contains(stored_grade, <<"-">>)
      /\ ExtractGradeNumber(stored_grade) # None
      /\ ExtractGradeNumber(user_grade) # None )
    => ( grade_ret.value
         <=> Val(ExtractGradeNumber(user_grade)) = Val(ExtractGradeNumber(stored_grade)) )

-----------------------------------------------------------------------------
(* Claims about the retrieval engine *)

Ran == tool = "ran"

Status == run_ret.value.status

\* the calls of the last run of one kind
CallsOf(op) == {i \in 1..Len(calls) : calls[i].op = op}

\* the index answered describe_index_stats with total_vector_count = 0
ReportedEmpty ==
    \E i \in CallsOf("describe_index_stats") :
        ~calls[i].raised /\ calls[i].total_vector_count = 0

\* the index answered describe_index_stats with a positive total_vector_count
ReportedNonEmpty ==
    \E i \in CallsOf("describe_index_stats") :
        ~calls[i].raised /\ calls[i].total_vector_count > 0

\* a field of the query is missing, null, empty or blank
FieldMissing(k) ==
    \/ k \notin DOMAIN run_query.d
    \/ ~IsStr(run_query.d[k])
    \/ Strip(run_query.d[k].s) = <<>>

WellFormed == run_query.t = "dict" /\ \A k \in required_keys : ~FieldMissing(k)

\* C3: when the index reports total_vector_count = 0, the retrieval returns
\* status "error" (and so not "invalid"), whatever the query.
C3_EmptyIndexIsError ==
    (Ran /\ ReportedEmpty) => (run_ret.kind = "return" /\ Status = "error")

C3_Witness == Ran /\ ReportedEmpty /\ WellFormed /\ Status = "error"

\* C4: a query with a missing or empty subject, grade_level or topic gets
\* status "error", whatever the index contains.
C4_MissingFieldIsError ==
    (Ran /\ run_query.t = "dict" /\ \E k \in required_keys : FieldMissing(k))
    => (run_ret.kind = "return" /\ Status = "error")

\* C5: _run never raises: it returns a result whose status is "valid",
\* "invalid" or "error", and it is "error" when a collaborator raised or the
\* index is not initialised.
C5_RunNeverRaises ==
    Ran => /\ run_ret.kind = "return"
           /\ Status \in {"valid", "invalid", "error"}
           /\ (\E i \in 1..Len(calls) : calls[i].raised) => Status = "error"
           /\ index = "None" => Status = "error"

C5_Witness ==
    /\ Ran
    /\ \E i \in CallsOf("embed") : calls[i].raised
    /\ Status = "error"

\* the candidates index.query returned to the last run
Candidates == calls[CHOOSE i \in CallsOf("query") : TRUE].matches

\* the candidate passes the grade filter and the topic filter of the last query
PassesBoth(m) ==
    /\ GradeMatches(run_query.d.grade_level.s, m.metadata.grade_level)
    /\ TopicRelevance(SplitWhitespace(Lower(run_query.d.topic.s)), m.metadata) > 0

\* a well-formed query, a non-empty index, and every collaborator answered
CleanRun ==
    /\ Ran
    /\ WellFormed
    /\ ReportedNonEmpty
    /\ CallsOf("query") # {}
    /\ \A i \in 1..Len(calls) : ~calls[i].raised

\* C6: for a well-formed query on a non-empty index with no upstream exception,
\* the status is "invalid", with an empty context and an empty alternatives
\* list, exactly when no candidate passes both filters, and "valid" exactly
\* when one does.
C6_InvalidIffNoCandidatePasses ==
    CleanRun =>
        /\ Status = "invalid" <=> ~\E i \in 1..Len(Candidates) : PassesBoth(Candidates[i])
        /\ Status = "valid" <=> \E i \in 1..Len(Candidates) : PassesBoth(Candidates[i])
        /\ Status = "invalid" =>
              /\ ContextOf(run_ret.value) = <<>>
              /\ run_ret.value.alternatives = <<>>

C6_Witness ==
    /\ CleanRun
    /\ Status = "valid"
    /\ \E i \in 1..Len(Candidates) : ~PassesBoth(Candidates[i])

-----------------------------------------------------------------------------
(* Claims about the week-content extractor *)

WeekCalled == week_ret.kind # "none"

\* the cells of a table row "| a | b | c |": the texts between its pipes, trimmed
Cells(line) == StripAll(SubSeq(Split(line, <<"|">>), 2, Len(Split(line, <<"|">>)) - 1))

\* a pipe-delimited row of at least three cells, none of them empty
IsFullRow(line) ==
    /\ Len(line) >= 2
    /\ line[1] = "|"
    /\ line[Len(line)] = "|"
    /\ Len(Cells(line)) >= 3
    /\ \A i \in 1..Len(Cells(line)) : Cells(line)[i] # <<>>

TableOnly == \A i \in 1..Len(Lines(scheme_content)) : IsFullRow(Lines(scheme_content)[i])

\* the rows whose first cell is the week number
WeekRows ==
    {i \in 1..Len(Lines(scheme_content)) : Cells(Lines(scheme_content)[i])[1] = week}

\* C7: for a content made of pipe-delimited table rows and a week number w,
\* extract_week_topic returns the second cell of a row whose first cell is w,
\* whatever the other cells of the rows hold.
C7_TopicOfWeekRow ==
    (WeekCalled /\ IsDigitStr(week) /\ TableOnly /\ WeekRows # {})
    => \E i \in WeekRows : week_ret = Return(Cells(Lines(scheme_content)[i])[2])

\* no line holds the week number and the content has no TOPIC: marker
NothingYieldsTopic ==
    /\ \A i \in 1..Len(Lines(scheme_content)) :
          ~Contains(Lines(scheme_content)[i], CleanWeek(week))
    /\ ~Contains(scheme_content, s_TOPIC)

\* C8: extract_week_topic is total: for every content and every week text it
\* returns a string and never raises, and it returns "General Topic" when no
\* line and no marker yields a topic.
C8_TopicIsTotal ==
    WeekCalled =>
        /\ week_ret.kind = "return"
        /\ NothingYieldsTopic => week_ret.value = s_General_Topic

\* the offsets at which "WEEK {week}" occurs in the content
HeaderStarts == {i \in 0..Len(scheme_content) : OccursAt(scheme_content, s_WEEK \o week, i)}

Least(S) == CHOOSE i \in S : \A j \in S : i <= j

\* the offsets after the first header at which the next "WEEK " occurs
NextStarts ==
    {j \in (Least(HeaderStarts) + Len(s_WEEK \o week))..Len(scheme_content) :
        OccursAt(scheme_content, s_WEEK, j)}

\* C9: extract_week_content returns the empty string when "WEEK {week}" does
\* not occur; otherwise the text from its first occurrence up to the next
\* "WEEK " after that header, or to the end of the content.
C9_WeekSection ==
    WeekCalled =>
        /\ week_ret.kind = "return"
        /\ HeaderStarts = {} => week_ret.value = <<>>
        /\ (HeaderStarts # {} /\ NextStarts = {}) =>
              week_ret.value = Slice(scheme_content, Least(HeaderStarts), Len(scheme_content))
        /\ (HeaderStarts # {} /\ NextStarts # {}) =>
              week_ret.value = Slice(scheme_content, Least(HeaderStarts), Least(NextStarts))

C9_Witness ==
    /\ WeekCalled
    /\ week # <<>>
    /\ HeaderStarts # {}
    /\ Least(HeaderStarts) > 0
    /\ NextStarts # {}
    /\ Len(week_ret.value) > Len(s_WEEK \o week)

HasDigit(s) == \E i \in 1..Len(s) : IsDigit(s[i])

\* C10: extract_weeks_from_scheme returns a sequence that is not empty and
\* strictly increasing in numeric value, and ["1"] when no week can be parsed.
C10_WeeksStrictlyIncreasing ==
    WeekCalled =>
        /\ week_ret.kind = "return"
        /\ week_ret.value # <<>>
        /\ \A i \in 1..Len(week_ret.value) : \A j \in 1..Len(week_ret.value) :
              i < j => ToInt(week_ret.value[i]) < ToInt(week_ret.value[j])
        /\ ~HasDigit(scheme_content) => week_ret.value = << <<"1">> >>

-----------------------------------------------------------------------------
(* Claims about the subject normaliser *)

\* the keys and the values of the alias table
AliasNames == {aliases[i][j] : i \in 1..Len(aliases), j \in 1..2}

-----------------------------------------------------------------------------
(* Further claims about the grade matcher *)

\* the text holds a number word "one".."nine", in any case
HasNumberWord(text) ==
    \E i \in 1..Len(word_to_num) : Contains(Lower(text), word_to_num[i][1])

\* the text holds neither a decimal digit nor a number word
NoNumberIn(text) == ~HasDigit(text) /\ ~HasNumberWord(text)

\* the extraction the stored side needs fails: a range without two digit
\* sequences, or a single grade without a number
StoredExtractionFails ==
    IF Contains(stored_grade, <<"-">>)
    THEN Len(FindAllDigits(stored_grade)) < 2
    ELSE NoNumberIn(stored_grade)

\* C12: _grade_matches returns false, and does not raise, for a query grade
\* without a digit or number word and a stored grade different from it, and
\* for a stored grade, different from the query's, from which no number can
\* be extracted.
C12_NoNumberIsNoMatch ==
    (grade_ret # NoCall /\ user_grade # stored_grade
        /\ (NoNumberIn(user_grade) \/ StoredExtractionFails))
    => grade_ret = Return(FALSE)

C12_Witness ==
    /\ grade_ret = Return(FALSE)
    /\ user_grade # stored_grade
    /\ ~NoNumberIn(user_grade)
    /\ StoredExtractionFails
    /\ stored_grade # <<>>

\* C20: for grade strings that are equal after trimming surrounding
\* whitespace and lower-casing, _grade_matches returns true, also when no
\* number can be extracted from them.
C20_EqualAfterTrimLowerMatches ==
    (grade_ret # NoCall /\ Strip(Lower(user_grade)) = Strip(Lower(stored_grade)))
    => grade_ret = Return(TRUE)

-----------------------------------------------------------------------------
(* Further claims about the retrieval engine *)

\* the matches of a "valid" result
Matches == run_ret.value.matches

IsValid == Ran /\ run_ret.kind = "return" /\ Status = "valid"

\* the keyword tokens of the query's topic
Keywords == SplitWhitespace(Lower(run_query.d.topic.s))

\* the keyword tokens that occur in the lower-cased content
InContent(metadata) ==
    {k \in 1..Len(Keywords) : Contains(Lower(metadata.content), Keywords[k])}

\* the keyword tokens that occur in at least one topic tag
InSomeTag(metadata) ==
    {k \in 1..Len(Keywords) :
        \E t \in 1..Len(metadata.topics) : Contains(Lower(metadata.topics[t]), Keywords[k])}

\* the pairs of a keyword token and a topic tag in which the token occurs
InTagPairs(metadata) ==
    {kt \in (1..Len(Keywords)) \X (1..Len(metadata.topics)) :
        Contains(Lower(metadata.topics[kt[2]]), Keywords[kt[1]])}

\* C15 as stated: the topic_relevance of a candidate is the number of keyword
\* tokens found in its content plus 2 times the number of keyword tokens found
\* in at least one of its topic tags.
C15_RelevancePerKeyword ==
    IsValid =>
        \A i \in 1..Len(Matches) :
            Matches[i].topic_relevance
              = Cardinality(InContent(Matches[i].metadata))
                + 2 * Cardinality(InSomeTag(Matches[i].metadata))

\* C15, amended: the topic_relevance of a candidate is the number of keyword
\* tokens found in its content plus 2 for every pair of a keyword token and a
\* topic tag in which the token occurs.
C15_RelevancePerKeywordAndTag ==
    IsValid =>
        \A i \in 1..Len(Matches) :
            Matches[i].topic_relevance
              = Cardinality(InContent(Matches[i].metadata))
                + 2 * Cardinality(InTagPairs(Matches[i].metadata))

C15_Witness ==
    /\ IsValid
    /\ \E i \in 1..Len(Matches) :
          /\ InContent(Matches[i].metadata) # {}
          /\ Cardinality(InTagPairs(Matches[i].metadata)) >= 2

\* C19: a query with a missing or empty required field is rejected before any
\* network call: the result is an error and neither the vector index nor the
\* embedding provider was called.
C19_RejectedBeforeAnyCall ==
    (Ran /\ run_query.t = "dict" /\ \E k \in required_keys : FieldMissing(k))
    => (run_ret.kind = "return" /\ Status = "error" /\ calls = <<>>)

\* the topic relevance of a candidate the index returned
RelevanceOf(c) ==
    Cardinality(InContent(c.metadata)) + 2 * Cardinality(InTagPairs(c.metadata))

\* the candidates of the last query that pass the grade and the topic filter
Survivors == {i \in 1..Len(Candidates) : PassesBoth(Candidates[i])}

Returned(i) == \E j \in 1..Len(Matches) : Matches[j].id = Candidates[i].id

\* (r1, s1) > (r2, s2), compared lexicographically
RanksHigher(r1, s1, r2, s2) == r1 > r2 \/ (r1 = r2 /\ s1 > s2)

CandidateOf(m) == {i \in 1..Len(Candidates) : Candidates[i].id = m.id}

RECURSIVE JoinedWith(_, _)
JoinedWith(texts, sep) ==
    IF texts = <<>> THEN <<>>
    ELSE IF Len(texts) = 1 THEN texts[1]
    ELSE texts[1] \o sep \o JoinedWith(Tail(texts), sep)

\* C18: in a "valid" result the context is the content of the returned
\* matches, in the order of the matches list, joined with a double newline;
\* the list is not empty and each entry has id, score, topic_relevance and
\* metadata.
C18_ContextJoinsMatchContents ==
    IsValid =>
        /\ Matches # <<>>
        /\ \A j \in 1..Len(Matches) :
              {"id", "score", "topic_relevance", "metadata"} \subseteq DOMAIN Matches[j]
        /\ run_ret.value.context
             = JoinedWith([j \in 1..Len(Matches) |-> Matches[j].metadata.content],
                          <<"\n", "\n">>)

C18_Witness ==
    /\ IsValid
    /\ Len(Matches) >= 2
    /\ Matches[1].metadata.content # Matches[2].metadata.content

-----------------------------------------------------------------------------
(* Claims about the record store *)

KeptTables == {"curriculum_context", "schemes", "lesson_plans", "lesson_notes"}

\* C14: no store operation removes or changes a context, scheme, lesson plan
\* or lesson notes record: every such record is still there after the
\* operation, with the fields it had
C14_OnlyExamsChange ==
    [][\A t \in KeptTables : \A id \in DOMAIN tables[t] :
          /\ id \in DOMAIN tables'[t]
          /\ tables'[t][id] = tables[t][id]]_vars

\* an update_exam or a delete_exam has changed the exams while a scheme and a
\* record of another of the four kinds are stored
C14_Witness ==
    /\ store_op.op \in {"update_exam", "delete_exam"}
    /\ store_op.ret = Return(TRUE)
    /\ DOMAIN tables.schemes # {}
    /\ \E t \in KeptTables \ {"schemes"} : DOMAIN tables[t] # {}

-----------------------------------------------------------------------------
(* Claims about the scheme-of-work endpoint *)

ValidRunBefore(i) ==
    \E j \in 1..(i - 1) : events[j].op = "run" /\ events[j].status = "valid"

\* C13: the handler stores a context, invokes the generator and stores a scheme
\* only after its retrieval has answered with status 'valid', and the tables
\* change in no request whose retrieval answered otherwise
C13_StoredOnlyAfterValid ==
    /\ [](\A i \in DOMAIN events :
             events[i].op \in {"store_context", "generate", "create_scheme"}
                 => ValidRunBefore(i))
    /\ [][tables' # tables =>
             \E j \in DOMAIN events' :
                 events'[j].op = "run" /\ events'[j].status = "valid"]_vars

\* a request whose retrieval was valid has stored its context and its scheme
C13_Witness ==
    /\ http_ret.kind = "return"
    /\ \E i \in DOMAIN events : events[i].op = "create_scheme" /\ ValidRunBefore(i)
    /\ \E c \in DOMAIN tables.curriculum_context : \E k \in DOMAIN tables.schemes :
           /\ tables.schemes[k].context_id = Some(c)
           /\ tables.curriculum_context[c].context # <<>>
           /\ http_ret.value.scheme_of_work_id = Some(k)

-----------------------------------------------------------------------------
(* Claims about the sections of two weeks *)

\* the slice [from, to) of the content that extract_week_content(content, w) returns
SectionOf(content, w) ==
    LET from == Find(content, s_WEEK \o w, 0)
    IN  [from |-> from, to |-> from + Len(ExtractWeekContent(content, w))]

Overlap(a, b) == a.from < a.to /\ b.from < b.to /\ a.from < b.to /\ b.from < a.to

\* C21: for every content and every two distinct week identifiers, the
\* sections extract_week_content returns for them are contiguous slices of
\* the content that do not overlap.
C21_SectionsDoNotOverlap ==
    (WeekCalled /\ week # <<>>) =>
        \A w2 \in ContentWeeks \ {week, <<>>} :
            /\ week_ret = Return(Slice(scheme_content, SectionOf(scheme_content, week).from,
                                       SectionOf(scheme_content, week).to))
            /\ ~Overlap(SectionOf(scheme_content, week), SectionOf(scheme_content, w2))

-----------------------------------------------------------------------------
(* Further claims about the subject normaliser *)

\* C24: normalize_subject treats underscores as spaces: normalize_subject(s)
\* equals normalize_subject of s with every underscore replaced by a space,
\* and its result has no leading or trailing whitespace.
C24_UnderscoresAreSpaces ==
    subject_rets # <<>> =>
        /\ subject_rets[1] = NormalizeSubject(ReplaceChar(subject_in, "_", " "))
        /\ subject_rets[1] = Strip(subject_rets[1])

-----------------------------------------------------------------------------
(* Claims about what the grade matcher compares *)

Hyphenated(text) == Contains(text, <<"-">>)

\* the first digit sequence of the query grade
QueryFirstNumber == FindAllDigits(Strip(Lower(user_grade)))[1]

\* C25: _grade_matches decides on the extracted numbers only: two
\* non-hyphenated grades with the same extracted non-zero number match
\* whatever else they hold, and a query that is itself a range is answered as
\* the first number of the query alone is answered.
C25_NumbersDecide ==
    grade_ret # NoCall =>
        /\ (/\ ~Hyphenated(user_grade)
            /\ ~Hyphenated(stored_grade)
            /\ ExtractGradeNumber(user_grade) # None
            /\ ExtractGradeNumber(user_grade) # Some(0)
            /\ ExtractGradeNumber(user_grade) = ExtractGradeNumber(stored_grade))
           => grade_ret = Return(TRUE)
        /\ (/\ Hyphenated(user_grade)
            /\ HasDigit(user_grade)
            /\ user_grade # stored_grade
            /\ QueryFirstNumber # stored_grade)
           => grade_ret = Return(GradeMatches(QueryFirstNumber, stored_grade))

C25_Witness ==
    /\ grade_ret = Return(FALSE)
    /\ Hyphenated(user_grade)
    /\ Len(FindAllDigits(user_grade)) = 2
    /\ ~Hyphenated(stored_grade)
    /\ ExtractGradeNumber(stored_grade) = Some(ToInt(FindAllDigits(user_grade)[2]))
    /\ ExtractGradeNumber(stored_grade) # Some(ToInt(QueryFirstNumber))
    /\ ToInt(QueryFirstNumber) # 0
    /\ ExtractGradeNumber(stored_grade) # Some(0)

-----------------------------------------------------------------------------
(* Further claims about the record store *)

\* the inserts the last operation sent to the database
InsertsSent == {i \in 1..Len(store_op.calls) : store_op.calls[i].op = "insert"}

\* C29: create_lesson_plan ends whatever the database answers: it sends the
\* insert at most twice (one retry after the error about the week column) and
\* returns the new id or None.
C29_LessonPlanRetriesOnce ==
    store_op.op = "create_lesson_plan" =>
        /\ Cardinality(InsertsSent) <= 2
        /\ store_op.ret.kind = "return"
        /\ \/ store_op.ret.value = None
           \/ \E id \in DOMAIN tables.lesson_plans : store_op.ret.value = Some(id)

\* the data of the update holds none of payload, content and week
NothingUpdatable(data) == DOMAIN data \cap {"payload", "content", "week"} = {}

\* C30: update_exam called with data that holds none of the updatable
\* fields sends no update to the database, leaves the tables as they were
\* and returns False.
C30_NothingToUpdate ==
    [][(CallUpdateExam /\ NothingUpdatable(store_op'.data))
        => /\ store_op'.calls = <<>>
           /\ tables' = tables
           /\ store_op'.ret = Return(FALSE)]_vars

-----------------------------------------------------------------------------
(* Claims about the embedding model and the tokenizer *)

\* the loads of a model, or of a tokenizer
LoadsOf(what) == {i \in Loaded : loader_log[i].what = what}

\* the instance that the first load of that kind made
FirstLoaded(what) ==
    Some(Cardinality({j \in Loaded : j <= Least(LoadsOf(what))}))

\* C22: in a sequential execution of PineconeManager constructions, loader
\* calls and retrieval calls, the model and the tokenizer are each loaded at
\* most once, every get_model and get_tokenizer call returns an instance and
\* not None, and every use gets the instance that was loaded first.
C22_LoadedOnce ==
    /\ Cardinality(LoadsOf("model")) <= 1
    /\ Cardinality(LoadsOf("tokenizer")) <= 1
    /\ \A i \in 1..Len(loader_rets) :
          /\ loader_rets[i].value # None
          /\ loader_rets[i].what = "model" => loader_rets[i].value = FirstLoaded("model")
          /\ loader_rets[i].what = "tokenizer"
                => loader_rets[i].value = FirstLoaded("tokenizer")
          /\ loader_rets[i].what = "both" => loader_rets[i].value = FirstLoaded("model")

\* the instances assigned to the `model` global of a module, in order
ModelsAssigned(module) ==
    SelectSeq(loader_log, LAMBDA e : e.op = "assign" /\ e.module = module /\ e.what = "model")

\* C23: when callers are in get_model together before the model is loaded,
\* the first to assign the global wins: its instance stays in the global and
\* is what every caller receives.
C23_FirstCallerWins ==
    \A module \in Modules :
        ModelsAssigned(module) # <<>> =>
            /\ module_globals[module]["model"] = ModelsAssigned(module)[1].value
            /\ \A i \in 1..Len(loader_rets) :
                  (loader_rets[i].fn = "get_model" /\ loader_rets[i].module = module)
                  => loader_rets[i].value = ModelsAssigned(module)[1].value

-----------------------------------------------------------------------------
(* Claims about the lesson-plan, lesson-notes and exam endpoints *)

\* the last request went to that endpoint
Requested(endpoint) == events # <<>> /\ events[1].endpoint = endpoint

\* the scheme the body of the last request names
AskedScheme == GetOr(events[1].payload, "scheme_of_work_id", None)

\* that scheme does not exist, or has no context_id
NoSchemeContext ==
    \/ AskedScheme = None
    \/ Val(AskedScheme) \notin DOMAIN tables.schemes
    \/ ~Truthy(GetOr(tables.schemes[Val(AskedScheme)], "context_id", None))

\* the row belongs to a scheme and carries that scheme's context_id
CarriesSchemeContext(row) ==
    /\ row.scheme_id # None
    /\ Val(row.scheme_id) \in DOMAIN tables.schemes
    /\ "context_id" \in DOMAIN row
    /\ row.context_id # None
    /\ row.context_id = tables.schemes[Val(row.scheme_id)].context_id

\* what the handler of the last request did, by name
Did(op) == \E i \in 1..Len(events) : events[i].op = op

\* C26: every lesson plan and lesson notes record the endpoints create
\* carries the context_id of its scheme, and a request that names a scheme
\* which does not exist or has no context_id neither reaches the generator
\* nor creates a record.
C26_RecordsCarryContext ==
    /\ [](/\ \A i \in DOMAIN tables.lesson_plans :
                CarriesSchemeContext(tables.lesson_plans[i])
          /\ \A i \in DOMAIN tables.lesson_notes :
                CarriesSchemeContext(tables.lesson_notes[i])
          /\ ((Requested("lesson-plan") \/ Requested("lesson-notes")) /\ NoSchemeContext)
             => ~Did("generate") /\ ~Did("create_lesson_plan") /\ ~Did("create_lesson_notes"))
    /\ [][((Requested("lesson-plan") \/ Requested("lesson-notes")) /\ NoSchemeContext)'
            => tables' = tables]_vars

C26_Witness ==
    /\ Requested("lesson-notes")
    /\ http_ret.kind = "return"
    /\ \E n \in DOMAIN tables.lesson_notes :
          /\ http_ret.value.lesson_notes_id = Some(n)
          /\ tables.lesson_notes[n].lesson_plan_id \in {Some(p) : p \in DOMAIN tables.lesson_plans}
          /\ tables.lesson_notes[n].context_id \in {Some(c) : c \in DOMAIN tables.curriculum_context}

\* the generator was called for the exam of the last request and raised
ExamGeneratorRaised ==
    /\ Requested("exam")
    /\ \E i \in 1..Len(events) : events[i].op = "generate" /\ events[i].outcome = "raise"

\* the insert of the exam raised
ExamInsertRaised ==
    \E i \in 1..Len(events) : events[i].op = "create_exam" /\ events[i].outcome = "raise"

\* the last request left no exam record
NoExamCreated == http_ret.kind = "raise" \/ http_ret.value.exam_id = None

\* C27: when the generator raises in the exam endpoint, the exam is still
\* stored, with empty content, and the response reports status "success";
\* what prevents the exam record is a missing scheme, an unknown exam type
\* or an exception outside the generation step, never the generator.
C27_ExamSurvivesGenerator ==
    /\ ExamGeneratorRaised =>
          /\ http_ret.kind = "return"
          /\ http_ret.value.status = "success"
          /\ http_ret.value.content = <<>>
          /\ Did("create_exam")
          /\ ~ExamInsertRaised =>
                \E k \in DOMAIN tables.exams :
                    /\ http_ret.value.exam_id = Some(k)
                    /\ tables.exams[k].content = <<>>
    /\ (Requested("exam") /\ NoExamCreated) =>
          \/ http_ret = HTTPException(404)
          \/ http_ret = HTTPException(400)
                /\ ~({"scheme_of_work_id", "exam_type"} \subseteq DOMAIN events[1].payload
                     /\ events[1].payload.exam_type \in DOMAIN weeks_covered)
          \/ http_ret = HTTPException(500) /\ ~Did("generate")
          \/ http_ret.kind = "return" /\ ExamInsertRaised

C27_Witness ==
    /\ ExamGeneratorRaised
    /\ http_ret.kind = "return"
    /\ http_ret.value.status = "success"
    /\ \E k \in DOMAIN tables.exams :
          http_ret.value.exam_id = Some(k) /\ tables.exams[k].content = <<>>

\* the session content has this key
Has(key) == key \in DOMAIN session_state.content

\* the keys of the "Generate New ..." buttons, in the order of the steps
NewKeys == << "new_scheme", "new_lesson_plan", "new_lesson_notes", "new_exam" >>

\* the step is in the content as it was before the last run
\* and the run has left it as it was
Kept(key) ==
    /\ (key \in DOMAIN clicked.before) <=> Has(key)
    /\ Has(key) => session_state.content[key] = clicked.before[key]

\* C28: in the content-generation workflow the session content holds a lesson
\* plan only with a scheme, lesson notes only with a lesson plan and an exam
\* only with lesson notes; a "Generate New ..." button removes its step and
\* every step after it and leaves the steps before it as they were.
C28_WorkflowInOrder ==
    /\ Has("lesson_plan") => Has("scheme")
    /\ Has("lesson_notes") => Has("lesson_plan")
    /\ Has("exam") => Has("lesson_notes")
    /\ \A n \in 1..4 :
         clicked.key = NewKeys[n]
         => /\ \A m \in n..4 : ~Has(Steps[m])
            /\ \A m \in 1..(n - 1) : Kept(Steps[m])

\* lesson notes with an exam after them were regenerated: both are gone, the
\* scheme and the lesson plan are still there
C28_Witness ==
    /\ clicked.key = "new_lesson_notes"
    /\ "exam" \in DOMAIN clicked.before
    /\ Has("scheme") /\ Has("lesson_plan")

====
